---- MODULE Spec2Model ----
(***************************************************************************)
(* Model of the signal-fusion and risk-sized decision engine:              *)
(*   src/trading_analyzer.py   (TradingAnalyzer)                           *)
(*   src/fibonacci_analyzer.py (FibonacciAnalyzer)                         *)
(*                                                                         *)
(* Python values are modelled as records [k, n, d]:                        *)
(*   k = "num"    a number, the exact rational n/d (d > 0, lowest terms);  *)
(*   k = "none"   the value None;                                          *)
(*   k = "str"    the one-character string 'x' (a non-numeric value);      *)
(*   k = "absent" the key is not in its dictionary.                        *)
(* Arithmetic is exact rational arithmetic: the binary rounding error of   *)
(* IEEE-754 doubles is not modelled, decimal rounding (round(x, k)) is.    *)
(***************************************************************************)
EXTENDS Integers, Sequences, FiniteSets, TLC

\* Bounds of the exploration
MaxPrecioTamano == 7    \* calcular_tamano_posicion: prices 0..MaxPrecioTamano
MaxTerciosFib == 12     \* calcular_niveles_fib: prices 0/3..MaxTerciosFib/3
PasosPuntuacion == 10   \* the fusion: sub-scores 0/Pasos..Pasos/Pasos
MaxMenciones == 9       \* calcular_puntuacion_sentimiento: counts 0..MaxMenciones

----------------------------------------------------------------------------
(* Exact rational arithmetic                                               *)

Abs(a) == IF a < 0 THEN -a ELSE a

RECURSIVE Gcd(_, _)
Gcd(a, b) == IF b = 0 THEN a ELSE Gcd(b, a % b)

RECURSIVE Pow10(_)
Pow10(k) == IF k = 0 THEN 1 ELSE 10 * Pow10(k - 1)

\* the number n/d in lowest terms (d > 0)
R(n, d) ==
    LET g == Gcd(Abs(n), d)
    IN  [k |-> "num", n |-> n \div g, d |-> d \div g]

Entero(i) == [k |-> "num", n |-> i, d |-> 1]

RNeg(x) == [k |-> "num", n |-> -x.n, d |-> x.d]

RAbs(x) == [k |-> "num", n |-> Abs(x.n), d |-> x.d]

RAdd(x, y) ==
    LET g == Gcd(x.d, y.d)
    IN  R(x.n * (y.d \div g) + y.n * (x.d \div g), (x.d \div g) * y.d)

RSub(x, y) == RAdd(x, RNeg(y))

RMul(x, y) ==
    LET g1 == Gcd(Abs(x.n), y.d)
        g2 == Gcd(Abs(y.n), x.d)
    IN  IF x.n = 0 \/ y.n = 0 THEN Entero(0)
        ELSE [k |-> "num", n |-> (x.n \div g1) * (y.n \div g2),
                           d |-> (x.d \div g2) * (y.d \div g1)]

\* x / y for y # 0
RDiv(x, y) ==
    IF y.n > 0 THEN RMul(x, [k |-> "num", n |-> y.d, d |-> y.n])
    ELSE RMul(x, [k |-> "num", n |-> -y.d, d |-> -y.n])

\* a/b < c/d for b, d > 0, on the continued fractions of the two: no product
\* is formed, so that no intermediate value leaves the integers of the checker
RECURSIVE LtFrac(_, _, _, _)
LtFrac(a, b, c, d) ==
    IF a \div b # c \div d THEN a \div b < c \div d
    ELSE IF c % d = 0 THEN FALSE
    ELSE IF a % b = 0 THEN TRUE
    ELSE LtFrac(d, c % d, b, a % b)

RLt(x, y) == LtFrac(x.n, x.d, y.n, y.d)

RLe(x, y) == ~RLt(y, x)

RMax(x, y) == IF RLt(x, y) THEN y ELSE x

RMin(x, y) == IF RLt(y, x) THEN y ELSE x

\* the digits-long decimal expansion of r/d (0 <= r < d), by long division:
\* <<the digits as an integer, the remainder left>>
RECURSIVE Expansion(_, _, _)
Expansion(r, d, digits) ==
    IF digits = 0 THEN <<0, r>>
    ELSE LET rest == Expansion(r, d, digits - 1)
         IN  <<rest[1] * 10 + ((rest[2] * 10) \div d), (rest[2] * 10) % d>>

\* Python's round(x, digits): the nearest multiple of 10^-digits, a tie going
\* to the even one
RRound(x, digits) ==
    LET p     == Pow10(digits)
        whole == x.n \div x.d
        e     == Expansion(x.n % x.d, x.d, digits)
        up    == \/ 2 * e[2] > x.d
                 \/ (2 * e[2] = x.d /\ (whole * p + e[1]) % 2 = 1)
    IN  IF p % x.d = 0 THEN x
        ELSE R(whole * p + e[1] + (IF up THEN 1 ELSE 0), p)

----------------------------------------------------------------------------
(* Python values and dictionaries                                          *)

None == [k |-> "none", n |-> 0, d |-> 1]

Str == [k |-> "str", n |-> 0, d |-> 1]

Absent == [k |-> "absent", n |-> 0, d |-> 1]

IsNum(v) == v.k = "num"

\* dict.get(key, default) on the value stored under the key
Get(v, default) == IF v.k = "absent" THEN default ELSE v

\* bool(v): None and 0 are false, the string 'x' is true
Truthy(v) == (v.k = "num" /\ v.n # 0) \/ v.k = "str"

\* a section (a nested dictionary) has forma "dict", "none" (the value None
\* where a dictionary is expected) or "absent" (the key is missing);
\* x.get(...) raises AttributeError on None
NoDict(sec) == sec.forma = "none"

\* a label (a string key into a scoring table): "absent" when the key is missing
GetLabel(l, default) == IF l = "absent" THEN default ELSE l

----------------------------------------------------------------------------
(* The analyzer                                                           *)

VARIABLES
    instancia   \* the attributes of the analyzer and of its fib_analyzer

----------------------------------------------------------------------------
(* TradingAnalyzer: the three sub-scores                                   *)

\* the attributes __init__ sets, on the analyzer and on its fib_analyzer
InstanciaInicial ==
    [riesgo_maximo |-> R(2, 100),
     fib_levels |-> <<Entero(0), R(236, 1000), R(382, 1000), R(1, 2), R(618, 1000),
                      R(786, 1000), Entero(1)>>,
     fib_ext |-> <<R(1272, 1000), R(1618, 1000), R(2618, 1000), R(3618, 1000)>>]

\* self.riesgo_maximo, read when the call runs
riesgo_maximo == instancia.riesgo_maximo

Medio == R(1, 2)

\* a < b on Python values raises TypeError unless both are numbers or both
\* are strings
CmpRaises(a, b) == ~((a.k = "num" /\ b.k = "num") \/ (a.k = "str" /\ b.k = "str"))

\* a < b where it does not raise ('x' < 'x' is False)
Lt(a, b) == a.k = "num" /\ b.k = "num" /\ RLt(a, b)

\* the dictionary read at line 14, or None when a .get on the way raises
Indicadores(datos) ==
    IF datos.forma # "dict" \/ NoDict(datos.analisis_tecnico_ml)
        \/ NoDict(datos.analisis_tecnico_ml.indicadores_clave)
    THEN [forma |-> "raise"]
    ELSE datos.analisis_tecnico_ml.indicadores_clave

\* mutant: line 18 without max(0, ...)
rsi_score_sin_max(rsi) ==
    IF RLe(Entero(40), rsi) /\ RLe(rsi, Entero(60)) THEN Entero(1)
    ELSE RSub(Entero(1), RDiv(RAbs(RSub(rsi, Entero(50))), Entero(50)))

rsi_score(rsi) ==
    IF RLe(Entero(40), rsi) /\ RLe(rsi, Entero(60)) THEN Entero(1)
    ELSE RMax(Entero(0),
              RSub(Entero(1), RDiv(RAbs(RSub(rsi, Entero(50))), Entero(50))))

macd_score(macd, macd_signal) ==
    IF Lt(macd_signal, macd) THEN Entero(1) ELSE Entero(0)

momentum_score(momentum) ==
    IF Lt(Entero(0), momentum) THEN Entero(1) ELSE Entero(0)

\* mutant: line 34 does not test that the price and the bands are non-zero
bb_score_sin_guardia(precio, bb_superior, bb_inferior) ==
    IF Lt(precio, bb_inferior) THEN Entero(1)
    ELSE IF Lt(bb_superior, precio) THEN Entero(0)
    ELSE Medio

bb_score(precio, bb_superior, bb_inferior) ==
    IF Truthy(precio) /\ Truthy(bb_superior) /\ Truthy(bb_inferior)
    THEN IF Lt(precio, bb_inferior) THEN Entero(1)
         ELSE IF Lt(bb_superior, precio) THEN Entero(0)
         ELSE Medio
    ELSE Medio

\* an exception inside the try block of calcular_puntuacion_tecnica
TecnicaRaises(datos) ==
    LET ind == Indicadores(datos)
    IN  \/ ind.forma = "raise"
        \/ LET rsi    == Get(ind.RSI, Entero(50))
               macd   == Get(ind.MACD, Entero(0))
               signal == Get(ind.MACD_Signal, Entero(0))
               mom    == Get(ind.Momentum, Entero(0))
               sup    == Get(ind.BB_Superior, Entero(0))
               inf    == Get(ind.BB_Inferior, Entero(0))
               precio == Get(datos.datos_mercado.precio_actual, Entero(0))
           IN  \/ ~IsNum(rsi)
               \/ CmpRaises(macd, signal)
               \/ ~IsNum(mom)
               \/ NoDict(datos.datos_mercado)
               \/ /\ Truthy(precio) /\ Truthy(sup) /\ Truthy(inf)
                  /\ \/ CmpRaises(precio, inf)
                     \/ (~Lt(precio, inf) /\ CmpRaises(precio, sup))

calcular_puntuacion_tecnica(datos) ==
    IF TecnicaRaises(datos) THEN Medio
    ELSE LET ind    == Indicadores(datos)
             rsi    == Get(ind.RSI, Entero(50))
             macd   == Get(ind.MACD, Entero(0))
             signal == Get(ind.MACD_Signal, Entero(0))
             mom    == Get(ind.Momentum, Entero(0))
             sup    == Get(ind.BB_Superior, Entero(0))
             inf    == Get(ind.BB_Inferior, Entero(0))
             precio == Get(datos.datos_mercado.precio_actual, Entero(0))
         IN  RAdd(RAdd(RMul(rsi_score(rsi), R(3, 10)),
                       RMul(macd_score(macd, signal), R(2, 10))),
                  RAdd(RMul(momentum_score(mom), R(2, 10)),
                       RMul(bb_score(precio, sup, inf), R(3, 10))))

\* an exception inside the try block of calcular_puntuacion_sentimiento
SentimientoRaises(datos) ==
    \/ datos.forma # "dict"
    \/ NoDict(datos.analisis_sentimiento)
    \/ NoDict(datos.analisis_sentimiento.menciones_24h)
    \/ LET m == datos.analisis_sentimiento.menciones_24h
       IN  ~(IsNum(Get(m.positivas, Entero(0))) /\ IsNum(Get(m.negativas, Entero(0))))

\* mutant: the test at line 74 looks at the positive mentions only
sentimiento_score_solo_positivas(positivas, negativas) ==
    IF RLt(Entero(0), positivas)
    THEN RDiv(positivas, RAdd(positivas, negativas))
    ELSE Medio

sentimiento_score(positivas, negativas) ==
    IF RLt(Entero(0), RAdd(positivas, negativas))
    THEN RDiv(positivas, RAdd(positivas, negativas))
    ELSE Medio

calcular_puntuacion_sentimiento(datos) ==
    IF SentimientoRaises(datos) THEN Medio
    ELSE LET m == datos.analisis_sentimiento.menciones_24h
         IN  sentimiento_score(Get(m.positivas, Entero(0)), Get(m.negativas, Entero(0)))

\* mutant: the table at lines 91-95 has no entry for BAJO
actividad_score_sin_bajo(actividad) ==
    CASE actividad = "ALTO"     -> Entero(1)
      [] actividad = "MODERADO" -> R(7, 10)
      [] OTHER                  -> Medio

actividad_score(actividad) ==
    CASE actividad = "ALTO"     -> Entero(1)
      [] actividad = "MODERADO" -> R(7, 10)
      [] actividad = "BAJO"     -> R(3, 10)
      [] OTHER                  -> Medio

ballenas_score(sentimiento) ==
    CASE sentimiento = "ACUMULACION"  -> Entero(1)
      [] sentimiento = "NEUTRAL"      -> Medio
      [] sentimiento = "DISTRIBUCION" -> Entero(0)
      [] OTHER                        -> Medio

\* mutant: line 87 reads datos['analisis_blockchain'], a KeyError when missing
BlockchainRaisesAusente(datos) ==
    datos.forma # "dict" \/ datos.analisis_blockchain.forma # "dict"

BlockchainRaises(datos) ==
    datos.forma # "dict" \/ NoDict(datos.analisis_blockchain)

calcular_puntuacion_blockchain(datos) ==
    IF BlockchainRaises(datos) THEN Medio
    ELSE LET b == datos.analisis_blockchain
         IN  RDiv(RAdd(actividad_score(GetLabel(b.institutional_activity, "BAJO")),
                       ballenas_score(GetLabel(b.sentiment, "NEUTRAL"))),
                  Entero(2))

----------------------------------------------------------------------------
(* FibonacciAnalyzer                                                       *)

\* self.fib_levels and self.fib_ext, read when the call runs
fib_levels == instancia.fib_levels

fib_ext == instancia.fib_ext

\* positions of the named ratios in fib_levels and fib_ext
Ret0 == 1
Ret0382 == 3
Ret0618 == 5
Ret0786 == 6
Ret1 == 7
Ext1272 == 1
Ext1618 == 2

\* mutant: the two branches at lines 30-33 are swapped
retracement_invertido(high, low, tendencia, level) ==
    IF tendencia = "ALCISTA"
    THEN RRound(RAdd(low, RMul(RSub(high, low), level)), 8)
    ELSE RRound(RSub(high, RMul(RSub(high, low), level)), 8)

retracement(high, low, tendencia, level) ==
    IF tendencia = "ALCISTA"
    THEN RRound(RSub(high, RMul(RSub(high, low), level)), 8)
    ELSE RRound(RAdd(low, RMul(RSub(high, low), level)), 8)

\* mutant: the bearish branch at line 42 adds the projection, as the bullish does
extension_sumada(high, low, tendencia, level) ==
    IF tendencia = "ALCISTA"
    THEN RRound(RAdd(high, RMul(RSub(high, low), RSub(level, Entero(1)))), 8)
    ELSE RRound(RAdd(low, RMul(RSub(high, low), RSub(level, Entero(1)))), 8)

extension(high, low, tendencia, level) ==
    IF tendencia = "ALCISTA"
    THEN RRound(RAdd(high, RMul(RSub(high, low), RSub(level, Entero(1)))), 8)
    ELSE RRound(RSub(low, RMul(RSub(high, low), RSub(level, Entero(1)))), 8)

calcular_niveles_fib(high, low, precio_actual, tendencia) ==
    [retracements |->
        [i \in DOMAIN fib_levels |-> retracement(high, low, tendencia, fib_levels[i])],
     extensions |->
        [i \in DOMAIN fib_ext |-> extension(high, low, tendencia, fib_ext[i])]]

\* mutant: of two candidates at the same distance the one listed last wins
MasCercanoUltimo(ret, candidatos, precio_actual) ==
    CHOOSE i \in candidatos :
        \A j \in candidatos :
            LET di == RAbs(RSub(ret[i], precio_actual))
                dj == RAbs(RSub(ret[j], precio_actual))
            IN  RLt(di, dj) \/ (di = dj /\ i >= j)

\* the candidate nearest to the current price; the sort is stable, so of two
\* candidates at the same distance the one listed first (the lower ratio) wins
MasCercano(ret, candidatos, precio_actual) ==
    CHOOSE i \in candidatos :
        \A j \in candidatos :
            LET di == RAbs(RSub(ret[i], precio_actual))
                dj == RAbs(RSub(ret[j], precio_actual))
            IN  RLt(di, dj) \/ (di = dj /\ i <= j)

RECURSIVE MinDe(_, _)
MinDe(ret, idx) ==
    LET i == CHOOSE x \in idx : TRUE
    IN  IF idx = {i} THEN ret[i] ELSE RMin(ret[i], MinDe(ret, idx \ {i}))

RECURSIVE MaxDe(_, _)
MaxDe(ret, idx) ==
    LET i == CHOOSE x \in idx : TRUE
    IN  IF idx = {i} THEN ret[i] ELSE RMax(ret[i], MaxDe(ret, idx \ {i}))

\* the positions in fib_levels of the levels listed at lines 63-66 and 92-95
entrada_candidatos(ret, precio_actual, tendencia) ==
    {i \in Ret0382..Ret0618 :
        IF tendencia = "ALCISTA" THEN RLt(ret[i], precio_actual)
        ELSE RLt(precio_actual, ret[i])}

\* the position in fib_levels of entrada_nivel, 0 when there is no candidate
entrada_nivel(ret, precio_actual, tendencia) ==
    LET candidatos == entrada_candidatos(ret, precio_actual, tendencia)
    IN  IF candidatos = {} THEN 0 ELSE MasCercano(ret, candidatos, precio_actual)

\* mutant: line 81 takes the 1.272 extension, as the fallback does
identificar_zonas_objetivo_unico(niveles, precio_actual, tendencia) ==
    LET ret == niveles.retracements
        ext == niveles.extensions
        candidatos == entrada_candidatos(ret, precio_actual, tendencia)
        nivel == entrada_nivel(ret, precio_actual, tendencia)
        stops ==
            IF tendencia = "ALCISTA" THEN {i \in DOMAIN ret : i > nivel}
            ELSE {i \in DOMAIN ret : i < nivel}
    IN  IF candidatos # {}
        THEN [entrada     |-> RRound(ret[nivel], 8),
              stop_loss   |-> RRound(IF tendencia = "ALCISTA"
                                     THEN (IF stops # {} THEN MinDe(ret, stops) ELSE ret[Ret1])
                                     ELSE (IF stops # {} THEN MaxDe(ret, stops) ELSE ret[Ret0]),
                                     8),
              take_profit |-> RRound(ext[Ext1272], 8)]
        ELSE [entrada     |-> RRound(ret[Ret0786], 8),
              stop_loss   |-> RRound(IF tendencia = "ALCISTA" THEN ret[Ret1] ELSE ret[Ret0], 8),
              take_profit |-> RRound(ext[Ext1272], 8)]

identificar_zonas_operacion(niveles, precio_actual, tendencia) ==
    LET ret == niveles.retracements
        ext == niveles.extensions
        candidatos == entrada_candidatos(ret, precio_actual, tendencia)
        nivel == entrada_nivel(ret, precio_actual, tendencia)
        stops ==
            IF tendencia = "ALCISTA" THEN {i \in DOMAIN ret : i > nivel}
            ELSE {i \in DOMAIN ret : i < nivel}
    IN  IF candidatos # {}
        THEN [entrada     |-> RRound(ret[nivel], 8),
              stop_loss   |-> RRound(IF tendencia = "ALCISTA"
                                     THEN (IF stops # {} THEN MinDe(ret, stops) ELSE ret[Ret1])
                                     ELSE (IF stops # {} THEN MaxDe(ret, stops) ELSE ret[Ret0]),
                                     8),
              take_profit |-> RRound(ext[Ext1618], 8)]
        ELSE [entrada     |-> RRound(ret[Ret0786], 8),
              stop_loss   |-> RRound(IF tendencia = "ALCISTA" THEN ret[Ret1] ELSE ret[Ret0], 8),
              take_profit |-> RRound(ext[Ext1272], 8)]

SinAnalisis ==
    [vacio |-> TRUE, tendencia |-> "NEUTRAL", entrada |-> Absent,
     stop_loss |-> Absent, take_profit |-> Absent]

RECURSIVE MaxSeq(_)
MaxSeq(s) == IF Len(s) = 1 THEN s[1] ELSE RMax(s[1], MaxSeq(Tail(s)))

RECURSIVE MinSeq(_)
MinSeq(s) == IF Len(s) = 1 THEN s[1] ELSE RMin(s[1], MinSeq(Tail(s)))

\* s[-2:] and s[:-2]
Ultimos2(s) == SubSeq(s, IF Len(s) > 2 THEN Len(s) - 1 ELSE 1, Len(s))
SinUltimos2(s) == SubSeq(s, 1, Len(s) - 2)

\* max() and min() of an empty list raise ValueError
EstructuraRaises(precios_maximos, precios_minimos) ==
    /\ Len(precios_maximos) >= 2 /\ Len(precios_minimos) >= 2
    /\ (Len(precios_maximos) = 2 \/ Len(precios_minimos) = 2)

\* mutant: line 128 returns NEUTRAL with a dictionary that is not empty
analizar_estructura_no_vacia(precios_maximos, precios_minimos, precio_actual) ==
    IF Len(precios_maximos) < 2 \/ Len(precios_minimos) < 2 THEN [SinAnalisis EXCEPT !.vacio = FALSE]
    ELSE LET ultimo_max    == MaxSeq(Ultimos2(precios_maximos))
             penultimo_max == MaxSeq(SinUltimos2(precios_maximos))
             ultimo_min    == MinSeq(Ultimos2(precios_minimos))
             penultimo_min == MinSeq(SinUltimos2(precios_minimos))
             tendencia ==
                 IF RLt(penultimo_max, ultimo_max) /\ RLt(penultimo_min, ultimo_min)
                 THEN "ALCISTA"
                 ELSE IF RLt(ultimo_max, penultimo_max) /\ RLt(ultimo_min, penultimo_min)
                 THEN "BAJISTA"
                 ELSE "NEUTRAL"
             high == IF tendencia = "ALCISTA" THEN ultimo_max ELSE penultimo_max
             low  == ultimo_min
             \* niveles is computed once and handed on as a value
             zonas ==
                 CHOOSE z \in {identificar_zonas_operacion(niveles, precio_actual, tendencia) :
                                  niveles \in {calcular_niveles_fib(high, low, precio_actual,
                                                                    tendencia)}} : TRUE
         IN  IF tendencia = "NEUTRAL" THEN SinAnalisis
             ELSE [vacio |-> FALSE, tendencia |-> tendencia, entrada |-> zonas.entrada,
                   stop_loss |-> zonas.stop_loss, take_profit |-> zonas.take_profit]

analizar_estructura_precio(precios_maximos, precios_minimos, precio_actual) ==
    IF Len(precios_maximos) < 2 \/ Len(precios_minimos) < 2 THEN SinAnalisis
    ELSE LET ultimo_max    == MaxSeq(Ultimos2(precios_maximos))
             penultimo_max == MaxSeq(SinUltimos2(precios_maximos))
             ultimo_min    == MinSeq(Ultimos2(precios_minimos))
             penultimo_min == MinSeq(SinUltimos2(precios_minimos))
             tendencia ==
                 IF RLt(penultimo_max, ultimo_max) /\ RLt(penultimo_min, ultimo_min)
                 THEN "ALCISTA"
                 ELSE IF RLt(ultimo_max, penultimo_max) /\ RLt(ultimo_min, penultimo_min)
                 THEN "BAJISTA"
                 ELSE "NEUTRAL"
             high == IF tendencia = "ALCISTA" THEN ultimo_max ELSE penultimo_max
             low  == ultimo_min
             \* niveles is computed once and handed on as a value
             zonas ==
                 CHOOSE z \in {identificar_zonas_operacion(niveles, precio_actual, tendencia) :
                                  niveles \in {calcular_niveles_fib(high, low, precio_actual,
                                                                    tendencia)}} : TRUE
         IN  IF tendencia = "NEUTRAL" THEN SinAnalisis
             ELSE [vacio |-> FALSE, tendencia |-> tendencia, entrada |-> zonas.entrada,
                   stop_loss |-> zonas.stop_loss, take_profit |-> zonas.take_profit]

\* an exception inside the try block of generar_recomendacion_fib, past the
\* early return on a false precio_actual
RecomendacionRaises(datos_mercado, analisis_tecnico) ==
    LET precio == Get(datos_mercado.precio_actual, Entero(0))
        ind    == analisis_tecnico.indicadores_clave
    IN  \/ NoDict(analisis_tecnico)
        \/ NoDict(ind)
        \/ ~IsNum(precio)
        \/ ~IsNum(Get(ind.BB_Superior, precio))
        \/ ~IsNum(Get(ind.BB_Inferior, precio))
        \/ LET sup == Get(ind.BB_Superior, RMul(precio, R(105, 100)))
               inf == Get(ind.BB_Inferior, RMul(precio, R(95, 100)))
               maximos == <<sup, RMul(sup, R(99, 100)), RMul(sup, R(98, 100))>>
               minimos == <<inf, RMul(inf, R(101, 100)), RMul(inf, R(102, 100))>>
           IN  \/ EstructuraRaises(maximos, minimos)
               \/ /\ ~analizar_estructura_precio(maximos, minimos, precio).vacio
                  /\ ~IsNum(Get(ind.RSI, Entero(50)))

\* mutant: the lows synthesized at lines 185-189 fall like the highs
generar_recomendacion_minimos_descendentes(datos_mercado, analisis_tecnico) ==
    IF NoDict(datos_mercado) THEN SinAnalisis
    ELSE IF ~Truthy(Get(datos_mercado.precio_actual, Entero(0))) THEN SinAnalisis
    ELSE IF RecomendacionRaises(datos_mercado, analisis_tecnico) THEN SinAnalisis
    ELSE LET precio == datos_mercado.precio_actual
             ind == analisis_tecnico.indicadores_clave
             sup == Get(ind.BB_Superior, RMul(precio, R(105, 100)))
             inf == Get(ind.BB_Inferior, RMul(precio, R(95, 100)))
         IN  analizar_estructura_precio(
                 <<sup, RMul(sup, R(99, 100)), RMul(sup, R(98, 100))>>,
                 <<inf, RMul(inf, R(99, 100)), RMul(inf, R(98, 100))>>,
                 precio)

generar_recomendacion_fib(datos_mercado, analisis_tecnico) ==
    IF NoDict(datos_mercado) THEN SinAnalisis
    ELSE IF ~Truthy(Get(datos_mercado.precio_actual, Entero(0))) THEN SinAnalisis
    ELSE IF RecomendacionRaises(datos_mercado, analisis_tecnico) THEN SinAnalisis
    ELSE LET precio == datos_mercado.precio_actual
             ind == analisis_tecnico.indicadores_clave
             sup == Get(ind.BB_Superior, RMul(precio, R(105, 100)))
             inf == Get(ind.BB_Inferior, RMul(precio, R(95, 100)))
         IN  analizar_estructura_precio(
                 <<sup, RMul(sup, R(99, 100)), RMul(sup, R(98, 100))>>,
                 <<inf, RMul(inf, R(101, 100)), RMul(inf, R(102, 100))>>,
                 precio)

----------------------------------------------------------------------------
(* TradingAnalyzer: levels, position size, decision                        *)

\* the empty dictionary {} returned where no levels can be computed
SinNiveles ==
    [vacio |-> TRUE, origen |-> "ninguno", entrada |-> Absent,
     stop_loss |-> Absent, take_profit |-> Absent]

\* an exception inside the try block of _calcular_niveles_tradicionales, past
\* the early return on a false precio_actual
TradicionalesRaises(datos) ==
    LET precio == Get(datos.datos_mercado.precio_actual, Entero(0))
        ind    == datos.analisis_tecnico_ml.indicadores_clave
    IN  \/ NoDict(datos.analisis_tecnico_ml)
        \/ NoDict(ind)
        \/ ~IsNum(precio)
        \/ Get(ind.ATR, Entero(0)).k = "str"

\* mutant: the stop of the sell branch at line 169 is copied from the buy branch
_calcular_niveles_venta_copiada(datos, puntuacion_global) ==
    IF datos.forma # "dict" \/ NoDict(datos.datos_mercado) THEN SinNiveles
    ELSE IF ~Truthy(Get(datos.datos_mercado.precio_actual, Entero(0))) THEN SinNiveles
    ELSE IF TradicionalesRaises(datos) THEN SinNiveles
    ELSE LET precio_actual == datos.datos_mercado.precio_actual
             atr == Get(datos.analisis_tecnico_ml.indicadores_clave.ATR, Entero(0))
             volatilidad == IF Truthy(atr) THEN atr ELSE RMul(precio_actual, R(2, 100))
             entrada ==
                 IF RLt(R(7, 10), puntuacion_global) THEN RMul(precio_actual, R(99, 100))
                 ELSE IF RLt(puntuacion_global, R(3, 10)) THEN RMul(precio_actual, R(101, 100))
                 ELSE precio_actual
             stop_loss ==
                 IF RLt(R(7, 10), puntuacion_global)
                 THEN RSub(entrada, RMul(volatilidad, R(15, 10)))
                 ELSE IF RLt(puntuacion_global, R(3, 10))
                 THEN RSub(entrada, RMul(volatilidad, R(15, 10)))
                 ELSE RSub(entrada, volatilidad)
             take_profit ==
                 IF RLt(R(7, 10), puntuacion_global)
                 THEN RAdd(entrada, RMul(volatilidad, Entero(3)))
                 ELSE IF RLt(puntuacion_global, R(3, 10))
                 THEN RSub(entrada, RMul(volatilidad, Entero(3)))
                 ELSE RAdd(entrada, volatilidad)
         IN  [vacio |-> FALSE, origen |-> "tradicional",
              entrada |-> RRound(entrada, 8),
              stop_loss |-> RRound(stop_loss, 8),
              take_profit |-> RRound(take_profit, 8)]

_calcular_niveles_tradicionales(datos, puntuacion_global) ==
    IF datos.forma # "dict" \/ NoDict(datos.datos_mercado) THEN SinNiveles
    ELSE IF ~Truthy(Get(datos.datos_mercado.precio_actual, Entero(0))) THEN SinNiveles
    ELSE IF TradicionalesRaises(datos) THEN SinNiveles
    ELSE LET precio_actual == datos.datos_mercado.precio_actual
             atr == Get(datos.analisis_tecnico_ml.indicadores_clave.ATR, Entero(0))
             volatilidad == IF Truthy(atr) THEN atr ELSE RMul(precio_actual, R(2, 100))
             entrada ==
                 IF RLt(R(7, 10), puntuacion_global) THEN RMul(precio_actual, R(99, 100))
                 ELSE IF RLt(puntuacion_global, R(3, 10)) THEN RMul(precio_actual, R(101, 100))
                 ELSE precio_actual
             stop_loss ==
                 IF RLt(R(7, 10), puntuacion_global)
                 THEN RSub(entrada, RMul(volatilidad, R(15, 10)))
                 ELSE IF RLt(puntuacion_global, R(3, 10))
                 THEN RAdd(entrada, RMul(volatilidad, R(15, 10)))
                 ELSE RSub(entrada, volatilidad)
             take_profit ==
                 IF RLt(R(7, 10), puntuacion_global)
                 THEN RAdd(entrada, RMul(volatilidad, Entero(3)))
                 ELSE IF RLt(puntuacion_global, R(3, 10))
                 THEN RSub(entrada, RMul(volatilidad, Entero(3)))
                 ELSE RAdd(entrada, volatilidad)
         IN  [vacio |-> FALSE, origen |-> "tradicional",
              entrada |-> RRound(entrada, 8),
              stop_loss |-> RRound(stop_loss, 8),
              take_profit |-> RRound(take_profit, 8)]

\* mutant: the all([...]) test at line 133 is missing
calcular_niveles_sin_all(datos, puntuacion_global) ==
    IF datos.forma # "dict"
    THEN _calcular_niveles_tradicionales(datos, puntuacion_global)
    ELSE LET analisis_fib ==
                 generar_recomendacion_fib(datos.datos_mercado, datos.analisis_tecnico_ml)
         IN  IF analisis_fib.vacio
             THEN _calcular_niveles_tradicionales(datos, puntuacion_global)
             ELSE [vacio |-> FALSE, origen |-> "fibonacci",
                   entrada |-> RRound(analisis_fib.entrada, 8),
                   stop_loss |-> RRound(analisis_fib.stop_loss, 8),
                   take_profit |-> RRound(analisis_fib.take_profit, 8)]

calcular_niveles_operacion(datos, puntuacion_global) ==
    \* analisis_fib is computed once; a datos that is no dictionary raises at
    \* line 115 and the except block at lines 145-147 answers
    CHOOSE niveles \in
        {IF datos.forma = "dict" /\ ~analisis_fib.vacio
            /\ Truthy(analisis_fib.entrada) /\ Truthy(analisis_fib.stop_loss)
            /\ Truthy(analisis_fib.take_profit)
         THEN [vacio |-> FALSE, origen |-> "fibonacci",
               entrada |-> RRound(analisis_fib.entrada, 8),
               stop_loss |-> RRound(analisis_fib.stop_loss, 8),
               take_profit |-> RRound(analisis_fib.take_profit, 8)]
         ELSE _calcular_niveles_tradicionales(datos, puntuacion_global) :
            analisis_fib \in
                {IF datos.forma # "dict" THEN SinAnalisis
                 ELSE generar_recomendacion_fib(datos.datos_mercado,
                                                datos.analisis_tecnico_ml)}} : TRUE

\* an exception inside the try block of calcular_tamano_posicion, past the
\* early return on a false argument
TamanoRaises(capital, precio_entrada, stop_loss) ==
    ~(IsNum(capital) /\ IsNum(precio_entrada) /\ IsNum(stop_loss))

\* mutant: the early return at lines 191-192 is missing
calcular_tamano_sin_guardia(capital, precio_entrada, stop_loss) ==
    IF TamanoRaises(capital, precio_entrada, stop_loss) THEN Entero(0)
    ELSE LET riesgo_monetario  == RMul(capital, riesgo_maximo)
             riesgo_por_unidad == RAbs(RSub(precio_entrada, stop_loss))
         IN  IF riesgo_por_unidad = Entero(0) THEN Entero(0)
             ELSE RRound(RDiv(riesgo_monetario, riesgo_por_unidad), 8)

\* mutant: the risk per unit at line 195 is taken without abs()
calcular_tamano_sin_abs(capital, precio_entrada, stop_loss) ==
    IF ~(Truthy(capital) /\ Truthy(precio_entrada) /\ Truthy(stop_loss)) THEN Entero(0)
    ELSE IF TamanoRaises(capital, precio_entrada, stop_loss) THEN Entero(0)
    ELSE LET riesgo_monetario  == RMul(capital, riesgo_maximo)
             riesgo_por_unidad == RSub(precio_entrada, stop_loss)
         IN  IF riesgo_por_unidad = Entero(0) THEN Entero(0)
             ELSE RRound(RDiv(riesgo_monetario, riesgo_por_unidad), 8)

\* mutant: round(unidades, 8) at line 201 keeps two decimals
calcular_tamano_dos_decimales(capital, precio_entrada, stop_loss) ==
    IF ~(Truthy(capital) /\ Truthy(precio_entrada) /\ Truthy(stop_loss)) THEN Entero(0)
    ELSE IF TamanoRaises(capital, precio_entrada, stop_loss) THEN Entero(0)
    ELSE LET riesgo_monetario  == RMul(capital, riesgo_maximo)
             riesgo_por_unidad == RAbs(RSub(precio_entrada, stop_loss))
         IN  IF riesgo_por_unidad = Entero(0) THEN Entero(0)
             ELSE RRound(RDiv(riesgo_monetario, riesgo_por_unidad), 2)

calcular_tamano_posicion(capital, precio_entrada, stop_loss) ==
    IF ~(Truthy(capital) /\ Truthy(precio_entrada) /\ Truthy(stop_loss)) THEN Entero(0)
    ELSE IF TamanoRaises(capital, precio_entrada, stop_loss) THEN Entero(0)
    ELSE LET riesgo_monetario  == RMul(capital, riesgo_maximo)
             riesgo_por_unidad == RAbs(RSub(precio_entrada, stop_loss))
         IN  IF riesgo_por_unidad = Entero(0) THEN Entero(0)
             ELSE RRound(RDiv(riesgo_monetario, riesgo_por_unidad), 8)

\* mutant: the on-chain weight at line 218 is 0.4, the weights sum to 1.1
puntuacion_global_pesos(tecnica, sentimiento, blockchain) ==
    RAdd(RAdd(RMul(tecnica, R(4, 10)), RMul(sentimiento, R(3, 10))),
         RMul(blockchain, R(4, 10)))

\* mutant: the sentiment term at line 223 is subtracted
puntuacion_global_restada(tecnica, sentimiento, blockchain) ==
    RAdd(RSub(RMul(tecnica, R(4, 10)), RMul(sentimiento, R(3, 10))),
         RMul(blockchain, R(3, 10)))

puntuacion_global(tecnica, sentimiento, blockchain) ==
    RAdd(RAdd(RMul(tecnica, R(4, 10)), RMul(sentimiento, R(3, 10))),
         RMul(blockchain, R(3, 10)))

\* mutant: the thresholds at lines 228 and 231 are 0.6 and 0.4
decidir_umbrales_cercanos(global) ==
    IF RLt(R(6, 10), global) THEN "COMPRAR"
    ELSE IF RLt(global, R(4, 10)) THEN "VENDER"
    ELSE "MANTENER"

\* mutant: the thresholds at lines 228 and 231 are not strict
decidir_no_estricto(global) ==
    IF RLe(R(7, 10), global) THEN "COMPRAR"
    ELSE IF RLe(global, R(3, 10)) THEN "VENDER"
    ELSE "MANTENER"

decidir(global) ==
    IF RLt(R(7, 10), global) THEN "COMPRAR"
    ELSE IF RLt(global, R(3, 10)) THEN "VENDER"
    ELSE "MANTENER"

explicar(global) ==
    IF RLt(R(7, 10), global) THEN "Senales alcistas fuertes en analisis tecnico y fundamental"
    ELSE IF RLt(global, R(3, 10)) THEN "Senales bajistas dominantes en multiples indicadores"
    ELSE "Mercado en rango, senales mixtas"

\* mutant: capital * riesgo_maximo at line 265 is taken never to raise
RetornoRaisesSinCapital(datos, capital) ==
    \/ datos.forma # "dict"
    \/ NoDict(datos.analisis_tecnico_ml)
    \/ NoDict(datos.analisis_tecnico_ml.patrones_identificados)
    \/ ~IsNum(Get(datos.analisis_tecnico_ml.patrones_identificados.fuerza_tendencia, Medio))

\* an exception in lines 249-276, which no inner try block catches
RetornoRaises(datos, capital) ==
    \/ datos.forma # "dict"
    \/ NoDict(datos.analisis_tecnico_ml)
    \/ NoDict(datos.analisis_tecnico_ml.patrones_identificados)
    \/ ~IsNum(capital)
    \/ ~IsNum(Get(datos.analisis_tecnico_ml.patrones_identificados.fuerza_tendencia, Medio))

\* mutant: the except block at lines 277-286 raises again instead of returning
decision_propagada ==
    [forma |-> "raise",
     decision |-> "absent",
     confianza |-> Absent,
     explicacion |-> "absent",
     niveles_operacion |->
        [vacio |-> TRUE, entrada |-> Absent, stop_loss |-> Absent, take_profit |-> Absent],
     gestion_riesgo |->
        [vacio |-> TRUE, tamano_posicion |-> Absent, riesgo_operacion |-> Absent,
         capital_arriesgado |-> Absent],
     analisis_detallado |->
        [vacio |-> TRUE, puntuacion_tecnica |-> Absent, puntuacion_sentimiento |-> Absent,
         puntuacion_blockchain |-> Absent, tendencia |-> "absent", fuerza |-> Absent]]

\* the record returned by the except block of generar_decision_trading
decision_por_defecto ==
    [forma |-> "record",
     decision |-> "MANTENER",
     confianza |-> Entero(50),
     explicacion |-> "Error en analisis, mantener posiciones actuales",
     niveles_operacion |->
        [vacio |-> TRUE, entrada |-> Absent, stop_loss |-> Absent, take_profit |-> Absent],
     gestion_riesgo |->
        [vacio |-> TRUE, tamano_posicion |-> Absent, riesgo_operacion |-> Absent,
         capital_arriesgado |-> Absent],
     analisis_detallado |->
        [vacio |-> TRUE, puntuacion_tecnica |-> Absent, puntuacion_sentimiento |-> Absent,
         puntuacion_blockchain |-> Absent, tendencia |-> "absent", fuerza |-> Absent]]

\* dict.get(key) with no default: None when the key is missing
GetNone(v) == Get(v, None)

\* the record built by the return statement at lines 253-276
decision_normal(datos, capital, tecnica, sentimiento, blockchain, global, niveles, tamano) ==
    LET mercado == datos.analisis_tecnico_ml.patrones_identificados
    IN  [forma |-> "record",
         decision |-> decidir(global),
         confianza |-> RRound(RMul(global, Entero(100)), 2),
         explicacion |-> explicar(global),
         niveles_operacion |->
            [vacio |-> FALSE, entrada |-> GetNone(niveles.entrada),
             stop_loss |-> GetNone(niveles.stop_loss),
             take_profit |-> GetNone(niveles.take_profit)],
         gestion_riesgo |->
            [vacio |-> FALSE, tamano_posicion |-> tamano,
             riesgo_operacion |-> RMul(riesgo_maximo, Entero(100)),
             capital_arriesgado |-> RRound(RMul(capital, riesgo_maximo), 2)],
         analisis_detallado |->
            [vacio |-> FALSE,
             puntuacion_tecnica |-> RRound(RMul(tecnica, Entero(100)), 2),
             puntuacion_sentimiento |-> RRound(RMul(sentimiento, Entero(100)), 2),
             puntuacion_blockchain |-> RRound(RMul(blockchain, Entero(100)), 2),
             tendencia |-> GetLabel(mercado.tendencia, "NEUTRAL"),
             fuerza |-> RRound(RMul(Get(mercado.fuerza_tendencia, Medio), Entero(100)), 2)]]

----------------------------------------------------------------------------
(* Inputs                                                                  *)

SeccionMercado(precio) == [forma |-> "dict", precio_actual |-> precio]

SeccionIndicadores(rsi, macd, signal, momentum, sup, inf, atr) ==
    [forma |-> "dict", RSI |-> rsi, MACD |-> macd, MACD_Signal |-> signal,
     Momentum |-> momentum, BB_Superior |-> sup, BB_Inferior |-> inf, ATR |-> atr]

SeccionPatrones(tendencia, fuerza) ==
    [forma |-> "dict", tendencia |-> tendencia, fuerza_tendencia |-> fuerza]

SeccionTecnico(indicadores, patrones) ==
    [forma |-> "dict", indicadores_clave |-> indicadores,
     patrones_identificados |-> patrones]

SeccionMenciones(positivas, negativas) ==
    [forma |-> "dict", positivas |-> positivas, negativas |-> negativas]

SeccionSentimiento(menciones) == [forma |-> "dict", menciones_24h |-> menciones]

SeccionBlockchain(actividad, sentimiento) ==
    [forma |-> "dict", institutional_activity |-> actividad, sentiment |-> sentimiento]

\* a section whose key is missing (forma "absent") or holds None (forma "none")
SinMercado(forma) == [SeccionMercado(Absent) EXCEPT !.forma = forma]
SinIndicadores(forma) ==
    [SeccionIndicadores(Absent, Absent, Absent, Absent, Absent, Absent, Absent)
        EXCEPT !.forma = forma]
SinPatrones(forma) == [SeccionPatrones("absent", Absent) EXCEPT !.forma = forma]
SinTecnico(forma) ==
    [SeccionTecnico(SinIndicadores("absent"), SinPatrones("absent")) EXCEPT !.forma = forma]
SinMenciones(forma) == [SeccionMenciones(Absent, Absent) EXCEPT !.forma = forma]
SinSentimiento(forma) ==
    [SeccionSentimiento(SinMenciones("absent")) EXCEPT !.forma = forma]
SinBlockchain(forma) == [SeccionBlockchain("absent", "absent") EXCEPT !.forma = forma]

Datos(mercado, tecnico, sentimiento, blockchain) ==
    [forma |-> "dict", datos_mercado |-> mercado, analisis_tecnico_ml |-> tecnico,
     analisis_sentimiento |-> sentimiento, analisis_blockchain |-> blockchain]

\* the empty dictionary, and a datos that is None
DatosVacio ==
    Datos(SinMercado("absent"), SinTecnico("absent"), SinSentimiento("absent"),
          SinBlockchain("absent"))
DatosNone == [DatosVacio EXCEPT !.forma = "none"]

Precios == {Absent, Entero(0), Entero(90), Entero(100), Entero(120)}
ValoresRSI == {Absent, Entero(25), Entero(100)}
ValoresMACD == {Absent, Entero(1)}
ValoresMomentum == {Absent, Entero(5)}
Bandas ==
    {<<Absent, Absent>>, <<Entero(110), Entero(95)>>, <<Entero(-110), Entero(95)>>,
     <<Entero(110), Entero(-95)>>}
ValoresATR == {Absent, Entero(3)}
Menciones == {<<0, 0>>, <<1, 0>>, <<0, 1>>, <<3, 1>>}
Actividades == {"ALTO", "BAJO", "OTRO"}
Ballenas == {"ACUMULACION", "DISTRIBUCION", "OTRO"}

\* well-formed inputs
DatosNormales ==
    {Datos(SeccionMercado(precio),
           SeccionTecnico(SeccionIndicadores(rsi, macd, Absent, mom, b[1], b[2], atr),
                          SeccionPatrones("ALCISTA", R(3, 4))),
           SeccionSentimiento(SeccionMenciones(Entero(m[1]), Entero(m[2]))),
           SeccionBlockchain(act, bal)) :
        precio \in Precios, rsi \in ValoresRSI, macd \in ValoresMACD,
        mom \in ValoresMomentum, b \in Bandas, atr \in ValoresATR,
        m \in Menciones, act \in Actividades, bal \in Ballenas}

\* the well-formed inputs that the malformations below are applied to
DatosBase ==
    {Datos(SeccionMercado(precio),
           SeccionTecnico(SeccionIndicadores(rsi, Entero(1), Absent, Entero(5),
                                             b[1], b[2], atr),
                          SeccionPatrones("ALCISTA", R(3, 4))),
           SeccionSentimiento(SeccionMenciones(Entero(3), Entero(1))),
           SeccionBlockchain("ALTO", "ACUMULACION")) :
        precio \in Precios, rsi \in ValoresRSI, b \in Bandas, atr \in ValoresATR}

NoNumeros == {None, Str}

\* one malformation of a well-formed input: a section that is missing or None,
\* or a field that holds None, the string 'x' or zero
Malformaciones ==
    {[que |-> q, forma |-> "none", v |-> Absent] : q \in {"datos", "vacio"}}
    \cup {[que |-> sec, forma |-> forma, v |-> Absent] :
            sec \in {"datos_mercado", "analisis_tecnico_ml", "indicadores_clave",
                     "patrones_identificados", "analisis_sentimiento", "menciones_24h",
                     "analisis_blockchain"},
            forma \in {"absent", "none"}}
    \cup {[que |-> campo, forma |-> "dict", v |-> v] :
            campo \in {"precio_actual", "RSI", "MACD", "MACD_Signal", "Momentum",
                       "BB_Superior", "BB_Inferior", "ATR", "fuerza_tendencia",
                       "positivas", "negativas"},
            v \in NoNumeros}
    \cup {[que |-> "ATR", forma |-> "dict", v |-> Entero(0)],
          [que |-> "fuerza_tendencia", forma |-> "dict", v |-> Absent],
          [que |-> "MACD_Bandas", forma |-> "dict", v |-> Str]}

Malformar(d, m) ==
    CASE m.que = "datos" -> DatosNone
      [] m.que = "vacio" -> DatosVacio
      [] m.que = "datos_mercado" -> [d EXCEPT !.datos_mercado = SinMercado(m.forma)]
      [] m.que = "analisis_tecnico_ml" ->
            [d EXCEPT !.analisis_tecnico_ml = SinTecnico(m.forma)]
      [] m.que = "indicadores_clave" ->
            [d EXCEPT !.analisis_tecnico_ml.indicadores_clave = SinIndicadores(m.forma)]
      [] m.que = "patrones_identificados" ->
            [d EXCEPT !.analisis_tecnico_ml.patrones_identificados = SinPatrones(m.forma)]
      [] m.que = "analisis_sentimiento" ->
            [d EXCEPT !.analisis_sentimiento = SinSentimiento(m.forma)]
      [] m.que = "menciones_24h" ->
            [d EXCEPT !.analisis_sentimiento.menciones_24h = SinMenciones(m.forma)]
      [] m.que = "analisis_blockchain" ->
            [d EXCEPT !.analisis_blockchain = SinBlockchain(m.forma)]
      [] m.que = "precio_actual" -> [d EXCEPT !.datos_mercado.precio_actual = m.v]
      [] m.que = "fuerza_tendencia" ->
            [d EXCEPT !.analisis_tecnico_ml.patrones_identificados.fuerza_tendencia = m.v]
      [] m.que \in {"positivas", "negativas"} ->
            [d EXCEPT !.analisis_sentimiento.menciones_24h[m.que] = m.v]
      \* every comparison of the technical score between two strings
      [] m.que = "MACD_Bandas" ->
            [d EXCEPT !.datos_mercado.precio_actual = m.v,
                      !.analisis_tecnico_ml.indicadores_clave.MACD = m.v,
                      !.analisis_tecnico_ml.indicadores_clave.MACD_Signal = m.v,
                      !.analisis_tecnico_ml.indicadores_clave.BB_Superior = m.v,
                      !.analisis_tecnico_ml.indicadores_clave.BB_Inferior = m.v]
      [] OTHER -> [d EXCEPT !.analisis_tecnico_ml.indicadores_clave[m.que] = m.v]

DatosMalformados == {Malformar(d, m) : d \in DatosBase, m \in Malformaciones}

Capitales == {Entero(100), R(1, 3), Entero(0), None, Str}

\* the calls of generar_decision_trading that are explored
Llamadas ==
    (DatosNormales \X {Entero(100)}) \cup (DatosMalformados \X Capitales)

\* the arguments of calcular_tamano_posicion that are explored: every
\* combination of a few capitals and prices, and the two sizings of 10000
ValoresTamano == {None, Str} \cup {Entero(i) : i \in 0..MaxPrecioTamano}
ArgsTamano ==
    [capital : {None, Str, Entero(0), Entero(100), Entero(-100)},
     precio_entrada : ValoresTamano, stop_loss : ValoresTamano]
    \cup [capital : {Entero(10000)}, precio_entrada : {Entero(100)},
          stop_loss : {Entero(98), Entero(100)}]

\* the arguments of calcular_niveles_fib that are explored: high >= low, both
\* multiples of one third
PreciosFib == {R(i, 3) : i \in 0..MaxTerciosFib}
ArgsFib ==
    {a \in [high : PreciosFib, low : PreciosFib, precio_actual : {Entero(1)},
            tendencia : {"ALCISTA", "BAJISTA"}] : RLe(a.low, a.high)}

\* the sub-scores that the fusion is explored on
Puntuaciones == {R(i, PasosPuntuacion) : i \in 0..PasosPuntuacion}
ArgsFusion ==
    [tecnica : Puntuaciones, sentimiento : Puntuaciones, blockchain : Puntuaciones]

\* the mention counts that calcular_puntuacion_sentimiento is explored on
Conteos == {Absent} \cup {Entero(i) : i \in 0..MaxMenciones}
DatosSentimiento ==
    {[DatosVacio EXCEPT !.analisis_sentimiento =
                            SeccionSentimiento(SeccionMenciones(pos, neg))] :
        pos \in Conteos, neg \in Conteos}

\* the labels that calcular_puntuacion_blockchain is explored on: every label
\* of the two tables, a label of neither, and a missing key
EtiquetasActividad == {"ALTO", "MODERADO", "BAJO", "OTRO", "absent"}
EtiquetasBallenas == {"ACUMULACION", "NEUTRAL", "DISTRIBUCION", "OTRO", "absent"}
DatosBlockchain ==
    {[DatosVacio EXCEPT !.analisis_blockchain = SeccionBlockchain(act, bal)] :
        act \in EtiquetasActividad, bal \in EtiquetasBallenas}

\* the indicators that calcular_puntuacion_tecnica is explored on: numbers and
\* missing keys; RSI inside, on and outside [40,60] and [0,100]; MACD above, at
\* and below its signal; prices below, between and above the bands, bands that
\* are zero, missing or crossed
RSIsTecnica ==
    {Absent} \cup {Entero(i) : i \in {-10, 0, 25, 40, 50, 60, 75, 100, 120}}
MACDsTecnica ==
    {<<Absent, Absent>>, <<Entero(1), Absent>>, <<Entero(-1), Absent>>,
     <<Entero(1), Entero(0)>>, <<Entero(0), Entero(1)>>, <<Entero(1), Entero(1)>>}
MomentosTecnica == {Absent, Entero(-5), Entero(0), Entero(5)}
PreciosTecnica == {Absent, Entero(0), Entero(-5), Entero(90), Entero(100), Entero(120)}
BandasTecnica ==
    {<<Absent, Absent>>, <<Entero(110), Entero(95)>>, <<Entero(0), Entero(95)>>,
     <<Entero(110), Entero(0)>>, <<Entero(110), Absent>>, <<Entero(95), Entero(110)>>}
DatosTecnica ==
    {[DatosVacio EXCEPT
        !.datos_mercado = SeccionMercado(precio),
        !.analisis_tecnico_ml =
            SeccionTecnico(SeccionIndicadores(rsi, m[1], m[2], mom, b[1], b[2], Absent),
                           SinPatrones("absent"))] :
        rsi \in RSIsTecnica, m \in MACDsTecnica, mom \in MomentosTecnica,
        precio \in PreciosTecnica, b \in BandasTecnica}

\* the inputs that _calcular_niveles_tradicionales is explored on: prices and
\* ATRs that are missing, zero, whole or a third, and a global score in each
\* of the three branches and on both thresholds
PreciosTradicionales == {Absent, Entero(0), Entero(1), Entero(5), Entero(-5)}
ATRsTradicionales == {Absent, Entero(0), Entero(3), R(1, 3)}
DatosTradicionales ==
    {[DatosVacio EXCEPT
        !.datos_mercado = SeccionMercado(a[1]),
        !.analisis_tecnico_ml =
            SeccionTecnico(SeccionIndicadores(Absent, Absent, Absent, Absent, Absent,
                                              Absent, a[2]),
                           SinPatrones("absent"))] :
        a \in (PreciosTradicionales \X ATRsTradicionales)
              \cup ({Entero(100)} \X {Absent, Entero(0), Entero(3)})}
GlobalesTradicionales == {R(i, 10) : i \in {2, 3, 5, 7, 8}}

\* the inputs that calcular_niveles_operacion is explored on: bands of one
\* sign (no trend, so no Fibonacci zone) and of two signs (a trend and a zone:
\* with 102 and -100 the 0.5 level is 0), a price that is missing, zero or on
\* either side of 0, an RSI that is missing or a string (the Fibonacci path
\* raises on it once it has a zone), and an analisis_tecnico_ml that is None
PreciosOperacion == {Absent, Entero(0), Entero(10), Entero(-10)}
BandasOperacion ==
    {<<Absent, Absent>>, <<Entero(110), Entero(95)>>, <<Entero(102), Entero(-100)>>,
     <<Entero(110), Entero(-95)>>, <<Entero(-110), Entero(95)>>,
     <<Entero(95), Entero(110)>>, <<Entero(7), Entero(7)>>, <<Absent, Entero(95)>>}
DatosOperacion ==
    {[DatosVacio EXCEPT
        !.datos_mercado = SeccionMercado(precio),
        !.analisis_tecnico_ml =
            SeccionTecnico(SeccionIndicadores(rsi, Absent, Absent, Absent, b[1], b[2],
                                              Entero(3)),
                           SinPatrones("absent"))] :
        precio \in PreciosOperacion, b \in BandasOperacion, rsi \in {Absent, Str}}
    \cup {[DatosVacio EXCEPT !.datos_mercado = SeccionMercado(precio),
                             !.analisis_tecnico_ml = SinTecnico("none")] :
            precio \in PreciosOperacion}
GlobalesOperacion == {R(5, 10), R(8, 10)}

\* the arguments that identificar_zonas_operacion is explored on: the levels
\* that calcular_niveles_fib gives for whole highs and lows, and level maps
\* whose 0.382, 0.5 and 0.618 prices are any of four values, equal ones
\* included; the keys of a level map are in ratio order, as calcular_niveles_fib
\* inserts them
MaxExtremoZonas == 4
ExtremosZonas == {Entero(i) : i \in 0..MaxExtremoZonas}
PreciosZonas == {Entero(i) : i \in {3, 5, 7, 9, 11}}
NivelesCalculados(tendencia) ==
    {calcular_niveles_fib(e[1], e[2], Entero(1), tendencia) :
        e \in {x \in ExtremosZonas \X ExtremosZonas : RLe(x[2], x[1])}}
NivelesSueltos ==
    {[retracements |-> <<Entero(10), Entero(9), a, b, c, Entero(2), Entero(1)>>,
      extensions |-> <<Entero(12), Entero(14), Entero(20), Entero(30)>>] :
        a \in {Entero(4), Entero(5), Entero(6), Entero(8)},
        b \in {Entero(4), Entero(5), Entero(6), Entero(8)},
        c \in {Entero(4), Entero(5), Entero(6), Entero(8)}}
ArgsZonas ==
    {[niveles |-> n, precio_actual |-> p, tendencia |-> t] :
        n \in NivelesSueltos, p \in PreciosZonas, t \in {"ALCISTA", "BAJISTA"}}
    \cup UNION {{[niveles |-> n, precio_actual |-> p, tendencia |-> t] :
                    n \in NivelesCalculados(t),
                    p \in {Entero(0), Entero(1), Entero(2), Entero(3), R(5, 2)}} :
                t \in {"ALCISTA", "BAJISTA"}}

\* the lists that analizar_estructura_precio is explored on: every list of up
\* to MaxLargoEstructura recent highs, and of lows, over three prices
MaxLargoEstructura == 3
ValoresEstructura == {Entero(1), Entero(2), Entero(3)}
ListasEstructura == UNION {[1..n -> ValoresEstructura] : n \in 0..MaxLargoEstructura}
ArgsEstructura ==
    {[precios_maximos |-> a, precios_minimos |-> b, precio_actual |-> Entero(2)] :
        a \in ListasEstructura, b \in ListasEstructura}

----------------------------------------------------------------------------
(* SistemaAlertas: the conditions of an alert and one pass over the alerts *)

\* a market-data snapshot handed to monitorear_alertas; simbolo is "absent"
\* when the key is missing, and get('simbolo') is then None
Instantanea(simbolo, precio_actual, cambio_porcentual, volumen_ratio, rsi) ==
    [simbolo |-> simbolo, precio_actual |-> precio_actual,
     cambio_porcentual |-> cambio_porcentual, volumen_ratio |-> volumen_ratio,
     rsi |-> rsi]

\* the dictionary configurar_alertas_personalizadas appends; id and creada,
\* which hold the time of the call, play no part in the dispatch
NuevaAlerta(simbolo, condiciones) ==
    [simbolo |-> simbolo, condiciones |-> condiciones, activa |-> TRUE,
     disparada |-> FALSE]

CondicionesConocidas ==
    {"precio_subio", "precio_bajo", "volumen_alto", "rsi_sobrecompra", "rsi_sobreventa"}

\* the field of the snapshot that a condition reads, with its default
CampoDe(condicion, datos_mercado) ==
    CASE condicion \in {"precio_subio", "precio_bajo"} ->
            Get(datos_mercado.cambio_porcentual, Entero(0))
      [] condicion = "volumen_alto" -> Get(datos_mercado.volumen_ratio, Entero(1))
      [] OTHER -> Get(datos_mercado.rsi, Entero(50))

\* the test of one branch of the if/elif chain at lines 52-61
CondicionFalla(condicion, valor, campo) ==
    CASE condicion = "precio_subio" -> RLt(campo, valor)
      [] condicion = "precio_bajo" -> RLt(RNeg(valor), campo)
      [] condicion = "volumen_alto" -> RLt(campo, valor)
      [] condicion = "rsi_sobrecompra" -> RLt(campo, valor)
      [] condicion = "rsi_sobreventa" -> RLt(valor, campo)
      [] OTHER -> FALSE

\* condiciones is the list of the items of the dictionary, in insertion order;
\* the result is "True", "False", or "raise" when a comparison meets a value
\* that is no number (TypeError)
RECURSIVE _verificar_condiciones(_, _)
_verificar_condiciones(condiciones, datos_mercado) ==
    IF condiciones = <<>> THEN "True"
    ELSE LET condicion == Head(condiciones)[1]
             valor     == Head(condiciones)[2]
             campo     == CampoDe(condicion, datos_mercado)
         IN  IF condicion \in CondicionesConocidas /\ ~IsNum(campo) THEN "raise"
             ELSE IF CondicionFalla(condicion, valor, campo) THEN "False"
             ELSE _verificar_condiciones(Tail(condiciones), datos_mercado)

\* the format specifications at lines 86-88 raise on a value that is no number
MensajeRaises(datos_mercado) ==
    \/ ~IsNum(Get(datos_mercado.precio_actual, Entero(0)))
    \/ ~IsNum(Get(datos_mercado.cambio_porcentual, Entero(0)))
    \/ ~IsNum(Get(datos_mercado.volumen_ratio, Entero(1)))
    \/ ~IsNum(Get(datos_mercado.rsi, Entero(50)))

\* mutant: the test of disparada at line 38 is missing
revisar_alerta_sin_guardia(alerta, datos_mercado) ==
    IF ~alerta.activa THEN "continue"
    ELSE IF alerta.simbolo # datos_mercado.simbolo THEN "continue"
    ELSE LET cumple == _verificar_condiciones(alerta.condiciones, datos_mercado)
         IN  IF cumple = "raise" THEN "raise"
             ELSE IF cumple = "False" THEN "continue"
             ELSE IF MensajeRaises(datos_mercado) THEN "raise"
             ELSE "disparar"

\* one iteration of the loop of monitorear_alertas, lines 38-47: the alert is
\* passed over ("continue"), dispatched and marked ("disparar"), or an
\* exception leaves the loop before anything is printed, sent or stored
\* ("raise"); the symbol of an alert is a string, so it differs from None
revisar_alerta(alerta, datos_mercado) ==
    IF ~alerta.activa \/ alerta.disparada THEN "continue"
    ELSE IF alerta.simbolo # datos_mercado.simbolo THEN "continue"
    ELSE LET cumple == _verificar_condiciones(alerta.condiciones, datos_mercado)
         IN  IF cumple = "raise" THEN "raise"
             ELSE IF cumple = "False" THEN "continue"
             ELSE IF MensajeRaises(datos_mercado) THEN "raise"
             ELSE "disparar"

\* monitorear_alertas from alert i on: est holds alertas_activas and the
\* alerts dispatched so far, each with the snapshot that dispatched it;
\* _enviar_email_alerta and _guardar_alerta_db catch their own exceptions, so
\* a dispatch that has begun always ends with disparada set (line 47)
RECURSIVE monitorear_desde(_, _, _)
monitorear_desde(i, est, datos_mercado) ==
    IF i > Len(est.alertas_activas) THEN est
    ELSE LET paso == revisar_alerta(est.alertas_activas[i], datos_mercado)
         IN  IF paso = "raise" THEN [est EXCEPT !.excepcion = TRUE]
             ELSE IF paso = "continue" THEN monitorear_desde(i + 1, est, datos_mercado)
             ELSE monitorear_desde(
                      i + 1,
                      [est EXCEPT !.alertas_activas[i].disparada = TRUE,
                                  !.despachos = Append(@, [alerta |-> i,
                                                           datos |-> datos_mercado])],
                      datos_mercado)

\* the alerts that are configured and the snapshots that arrive: the symbol
\* of a snapshot is one of two or missing; its fields show a rise or a fall,
\* with or without a high volume, are missing (so defaulted), or hold a string
\* in cambio_porcentual or in precio_actual
SimbolosAlerta == {"AAPL", "TSLA"}
CondicionesAlerta ==
    {<<>>,
     <<<<"volumen_alto", Entero(3)>>>>,
     <<<<"precio_subio", R(5, 100)>>, <<"precio_bajo", R(5, 100)>>>>,
     <<<<"rsi_sobrecompra", Entero(75)>>, <<"precio_subio", R(5, 100)>>>>,
     <<<<"rsi_sobreventa", Entero(25)>>, <<"precio_bajo", R(5, 100)>>>>}
LecturasAlerta ==
    {<<Entero(100), R(6, 100), Entero(4), Entero(80)>>,
     <<Entero(100), R(6, 100), Absent, Entero(80)>>,
     <<Entero(100), R(-6, 100), Entero(4), Entero(20)>>,
     <<Entero(100), Absent, Absent, Absent>>,
     <<Entero(100), Str, Entero(4), Entero(80)>>,
     <<Str, R(6, 100), Entero(4), Entero(80)>>}
Instantaneas ==
    {Instantanea(s, l[1], l[2], l[3], l[4]) :
        s \in SimbolosAlerta \cup {"absent"}, l \in LecturasAlerta}
MaxAlertas == 2
MaxDespachos == 3

----------------------------------------------------------------------------
(* GestorRiesgoAvanzado: floating-point sums and the size of a position    *)

\* The risk manager adds and subtracts floats, and whether its sum stays
\* within the daily limit depends on how each operation rounds. A float here
\* has BitsMantisa significant bits (53 in Python) and every operation rounds
\* its exact result to the nearest float, a tie going to the even mantissa.
BitsMantisa == 5

RECURSIVE Pow2(_)
Pow2(k) == IF k = 0 THEN 1 ELSE 2 * Pow2(k - 1)

\* a / d > 0 as <<m, e>>, the float m * 2^e nearest to it, with
\* 2^(BitsMantisa-1) <= m <= 2^BitsMantisa
RECURSIVE Mantisa(_, _, _)
Mantisa(a, d, e) ==
    IF a < Pow2(BitsMantisa - 1) * d THEN Mantisa(2 * a, d, e - 1)
    ELSE IF a >= Pow2(BitsMantisa) * d THEN Mantisa(a, 2 * d, e + 1)
    ELSE IF 2 * (a % d) > d \/ (2 * (a % d) = d /\ (a \div d) % 2 = 1)
    THEN <<(a \div d) + 1, e>>
    ELSE <<a \div d, e>>

\* m * 2^e
DeMantisa(m, e) == IF e >= 0 THEN Entero(m * Pow2(e)) ELSE R(m, Pow2(-e))

\* the unit in the last place of the float x
Ulp(x) ==
    IF x.n = 0 THEN Entero(0) ELSE DeMantisa(1, Mantisa(Abs(x.n), x.d, 0)[2])

\* the float nearest to x
Flotante(x) ==
    IF x.n = 0 THEN Entero(0)
    ELSE CHOOSE y \in {DeMantisa((IF x.n < 0 THEN -1 ELSE 1) * me[1], me[2]) :
                          me \in {Mantisa(Abs(x.n), x.d, 0)}} : TRUE

FAdd(x, y) == Flotante(RAdd(x, y))
FSub(x, y) == Flotante(RSub(x, y))
FMul(x, y) == Flotante(RMul(x, y))
FDiv(x, y) == Flotante(RDiv(x, y))

\* int(x)
Truncar(x) == IF x.n >= 0 THEN Entero(x.n \div x.d) ELSE Entero(-((-x.n) \div x.d))

\* GestorRiesgoAvanzado.__init__, lines 182-187
NuevoGestor(capital_total) ==
    [capital_total |-> capital_total, operaciones_activas |-> <<>>,
     riesgo_diario_maximo |-> Flotante(R(5, 100)),
     riesgo_acumulado_hoy |-> Entero(0)]

_calcular_stop_loss_dinamico(precio, volatilidad, direccion) ==
    IF direccion = "COMPRAR"
    THEN FMul(precio, FSub(Entero(1), FMul(volatilidad, Entero(2))))
    ELSE FMul(precio, FAdd(Entero(1), FMul(volatilidad, Entero(2))))

_calcular_take_profit(precio, stop_loss, direccion) ==
    IF direccion = "COMPRAR"
    THEN FAdd(precio, FMul(RAbs(FSub(precio, stop_loss)), Entero(2)))
    ELSE FSub(precio, FMul(RAbs(FSub(precio, stop_loss)), Entero(2)))

\* lines 196-205
riesgo_ajustado(capital_total, confianza, volatilidad) ==
    CHOOSE r \in
        {IF RLt(Flotante(R(5, 100)), volatilidad) THEN FMul(con_confianza, Medio)
         ELSE IF RLt(volatilidad, Flotante(R(1, 100)))
         THEN FMul(con_confianza, Flotante(R(12, 10)))
         ELSE con_confianza :
            con_confianza \in {FMul(FMul(capital_total, Flotante(R(2, 100))), confianza)}} :
        TRUE

\* line 208
riesgo_disponible(g) ==
    FSub(FMul(g.capital_total, g.riesgo_diario_maximo), g.riesgo_acumulado_hoy)

\* mutant: line 209 does not cap the risk by what is left of the daily limit
riesgo_final_sin_limite(ajustado, disponible) == ajustado

\* line 209
riesgo_final(ajustado, disponible) == RMin(ajustado, disponible)

\* the two dictionaries with the key 'error', and the KeyError of
\* señal['decision'] at line 215
TamanoSinPosicion(tipo) ==
    [tipo |-> tipo, tamano_posicion |-> Absent, stop_loss |-> Absent,
     take_profit |-> Absent, riesgo_operacion |-> Absent]

\* lines 214-239, for a risk above 0
PosicionCon(g, senal, precio_actual, volatilidad, riesgo) ==
    IF senal.decision = "absent" THEN TamanoSinPosicion("raise")
    ELSE CHOOSE pos \in
        {IF RSub(precio_actual, stop_loss).n = 0 THEN TamanoSinPosicion("stop_invalido")
         ELSE [tipo |-> "posicion",
               tamano_posicion |->
                   Truncar(RMin(FDiv(riesgo, RAbs(FSub(precio_actual, stop_loss))),
                                FDiv(FMul(g.capital_total, Flotante(R(10, 100))),
                                     precio_actual))),
               stop_loss |-> stop_loss,
               take_profit |-> _calcular_take_profit(precio_actual, stop_loss,
                                                     senal.decision),
               riesgo_operacion |-> riesgo] :
            stop_loss \in {_calcular_stop_loss_dinamico(precio_actual, volatilidad,
                                                        senal.decision)}} : TRUE

\* calcular_tamaño_posicion_avanzado, lines 189-239
calcular_tamano_posicion_avanzado(g, senal, datos_mercado) ==
    CHOOSE res \in
        {IF RLe(riesgo, Entero(0)) THEN TamanoSinPosicion("limite")
         ELSE PosicionCon(g, senal, Get(datos_mercado.precio_actual, Entero(0)),
                          Get(datos_mercado.volatilidad, Flotante(R(2, 100))), riesgo) :
            riesgo \in
                {riesgo_final(
                     riesgo_ajustado(g.capital_total, Get(senal.confianza, Medio),
                                     Get(datos_mercado.volatilidad, Flotante(R(2, 100)))),
                     riesgo_disponible(g))}} : TRUE

\* registrar_operacion, lines 259-266; medianoche says that the clock reads
\* 00:00 at line 265
registrar_operacion(g, operacion, medianoche) ==
    [g EXCEPT !.operaciones_activas = Append(@, operacion),
              !.riesgo_acumulado_hoy =
                  IF medianoche THEN Entero(0)
                  ELSE FAdd(@, operacion.riesgo_operacion)]

\* the managers, signals and market data that are explored: a capital that is
\* positive, zero or negative; a confianza that is missing (0.5), or 70 as
\* generar_decision_trading reports it; a decision that may be missing; a
\* volatilidad that is missing (0.02), high or low; a price that is missing
\* (0) or 100
CapitalesGestor == {Entero(9), Entero(0), Entero(-100)}
Senales ==
    {[confianza |-> Absent, decision |-> "COMPRAR"],
     [confianza |-> Flotante(Entero(70)), decision |-> "VENDER"],
     [confianza |-> Absent, decision |-> "absent"]}
DatosGestor ==
    {[precio_actual |-> Entero(100), volatilidad |-> Absent],
     [precio_actual |-> Entero(100), volatilidad |-> Flotante(R(1, 10))],
     [precio_actual |-> Entero(100), volatilidad |-> Flotante(R(5, 1000))],
     [precio_actual |-> Absent, volatilidad |-> Absent]}
MaxOperaciones == 2

----------------------------------------------------------------------------
(* The calls as a state machine                                            *)

VARIABLES
    fn,         \* the function that is called
    pc,         \* the statement that runs next
    datos,      \* the datos argument
    capital,    \* the capital argument of generar_decision_trading
    traza,      \* the local variables of generar_decision_trading, as far as set
    resultado,  \* the record generar_decision_trading returned
    args,       \* the arguments of the other functions
    ret,        \* <<the value the other functions returned>>, <<>> before
    otra,       \* a second call of generar_decision_trading on the same analyzer
    alertas_activas,  \* SistemaAlertas.alertas_activas
    despachos,        \* the alerts _disparar_alerta printed, sent and stored
    gestor,           \* the attributes of a GestorRiesgoAvanzado
    ultimo_tamano,    \* what the latest calcular_tamano_posicion_avanzado returned
    en_orden          \* every registration so far registered that latest result

\* the variables of the analyzer, and those of the alert system and of the
\* risk manager
analizador == <<fn, pc, datos, capital, traza, resultado, args, ret, instancia, otra>>
perifericos == <<alertas_activas, despachos, gestor, ultimo_tamano, en_orden>>
vars == <<analizador, perifericos>>

\* no risk manager has been constructed, no sizing has been asked for
SinGestor ==
    [capital_total |-> Absent, operaciones_activas |-> <<>>,
     riesgo_diario_maximo |-> Absent, riesgo_acumulado_hoy |-> Absent]
SinTamano ==
    [tipo |-> "ninguno", tamano_posicion |-> Absent, stop_loss |-> Absent,
     take_profit |-> Absent, riesgo_operacion |-> Absent]

\* an analyzer call touches neither the alert system nor a risk manager
SinPerifericos ==
    /\ alertas_activas = <<>>
    /\ despachos = <<>>
    /\ gestor = SinGestor
    /\ ultimo_tamano = SinTamano
    /\ en_orden = TRUE

SinTraza ==
    [tecnica |-> Absent, sentimiento |-> Absent, blockchain |-> Absent,
     global |-> Absent, decision |-> "absent", niveles |-> SinNiveles,
     tamano |-> Absent, excepcion |-> FALSE]

SinResultado == [decision_por_defecto EXCEPT !.forma = "pendiente"]

\* a caller of generar_decision_trading(d, c) about to run its first statement
Inicio(d, c) ==
    [pc |-> "puntuar", datos |-> d, capital |-> c, traza |-> SinTraza,
     resultado |-> SinResultado]

\* no second call
OtraInactiva == [Inicio(DatosVacio, Absent) EXCEPT !.pc = "inactivo"]

\* the first caller, as a record like the second
Yo ==
    [pc |-> pc, datos |-> datos, capital |-> capital, traza |-> traza,
     resultado |-> resultado]

instancia_ajustada(c, inst) ==
    IF c.pc = "tamano" THEN [inst EXCEPT !.riesgo_maximo = RMul(@, Medio)] ELSE inst

\* the attributes after the statement the caller c runs: no statement that
\* generar_decision_trading reaches assigns to an attribute of self or of
\* self.fib_analyzer
instancia_tras(c, inst) == inst

InitDecision ==
    /\ otra = OtraInactiva
    /\ fn = "generar_decision_trading"
    /\ pc = "puntuar"
    /\ \E ll \in Llamadas : datos = ll[1] /\ capital = ll[2]
    /\ traza = SinTraza
    /\ resultado = SinResultado
    /\ args = <<>>
    /\ ret = <<>>

\* a call of one of the other functions on the arguments a
InitFuncion(f, d, a) ==
    /\ otra = OtraInactiva
    /\ fn = f
    /\ pc = "aplicar"
    /\ datos = d
    /\ capital = Absent
    /\ traza = SinTraza
    /\ resultado = SinResultado
    /\ args = a
    /\ ret = <<>>

Init ==
    /\ instancia = InstanciaInicial
    /\ SinPerifericos
    /\ \/ InitDecision
       \/ \E a \in ArgsTamano : InitFuncion("calcular_tamano_posicion", DatosVacio, a)
       \/ \E a \in ArgsFib : InitFuncion("calcular_niveles_fib", DatosVacio, a)
       \/ \E a \in ArgsFusion : InitFuncion("puntuacion_global", DatosVacio, a)
       \/ \E d \in DatosSentimiento : InitFuncion("calcular_puntuacion_sentimiento", d, <<>>)
       \/ \E d \in DatosBlockchain : InitFuncion("calcular_puntuacion_blockchain", d, <<>>)
       \/ \E d \in DatosTecnica : InitFuncion("calcular_puntuacion_tecnica", d, <<>>)
       \/ \E d \in DatosTradicionales, g \in GlobalesTradicionales :
             InitFuncion("_calcular_niveles_tradicionales", d, [puntuacion_global |-> g])
       \/ \E d \in DatosOperacion, g \in GlobalesOperacion :
             InitFuncion("calcular_niveles_operacion", d, [puntuacion_global |-> g])
       \/ \E a \in ArgsZonas : InitFuncion("identificar_zonas_operacion", DatosVacio, a)
       \/ \E a \in ArgsEstructura : InitFuncion("analizar_estructura_precio", DatosVacio, a)

\* lines 210-212
Puntuar ==
    /\ pc = "puntuar"
    /\ traza' = [traza EXCEPT !.tecnica = calcular_puntuacion_tecnica(datos),
                              !.sentimiento = calcular_puntuacion_sentimiento(datos),
                              !.blockchain = calcular_puntuacion_blockchain(datos)]
    /\ pc' = "fusionar"
    /\ instancia' = instancia_tras(Yo, instancia)
    /\ UNCHANGED <<fn, datos, capital, resultado, args, ret, otra, perifericos>>

\* lines 214-236
Fusionar ==
    /\ pc = "fusionar"
    /\ \E g \in {puntuacion_global(traza.tecnica, traza.sentimiento, traza.blockchain)} :
          traza' = [traza EXCEPT !.global = g, !.decision = decidir(g)]
    /\ pc' = "niveles"
    /\ instancia' = instancia_tras(Yo, instancia)
    /\ UNCHANGED <<fn, datos, capital, resultado, args, ret, otra, perifericos>>

\* line 239
CalcularNiveles ==
    /\ pc = "niveles"
    /\ traza' = [traza EXCEPT !.niveles = calcular_niveles_operacion(datos, traza.global)]
    /\ pc' = "tamano"
    /\ instancia' = instancia_tras(Yo, instancia)
    /\ UNCHANGED <<fn, datos, capital, resultado, args, ret, otra, perifericos>>

\* lines 242-246
CalcularTamano ==
    /\ pc = "tamano"
    /\ traza' = [traza EXCEPT !.tamano =
                    IF traza.niveles.vacio THEN Entero(0)
                    ELSE calcular_tamano_posicion(capital,
                             Get(traza.niveles.entrada, Entero(0)),
                             Get(traza.niveles.stop_loss, Entero(0)))]
    /\ pc' = "retornar"
    /\ instancia' = instancia_tras(Yo, instancia)
    /\ UNCHANGED <<fn, datos, capital, resultado, args, ret, otra, perifericos>>

\* lines 249-276, no exception
Retornar ==
    /\ pc = "retornar"
    /\ ~RetornoRaises(datos, capital)
    /\ resultado' = decision_normal(datos, capital, traza.tecnica, traza.sentimiento,
                                    traza.blockchain, traza.global, traza.niveles,
                                    traza.tamano)
    /\ pc' = "retornado"
    /\ instancia' = instancia_tras(Yo, instancia)
    /\ UNCHANGED <<fn, datos, capital, traza, args, ret, otra, perifericos>>

\* lines 249-276 raise, and the except block at lines 277-286 answers
RetornarPorDefecto ==
    /\ pc = "retornar"
    /\ RetornoRaises(datos, capital)
    /\ resultado' = decision_por_defecto
    /\ traza' = [traza EXCEPT !.excepcion = TRUE]
    /\ pc' = "retornado"
    /\ instancia' = instancia_tras(Yo, instancia)
    /\ UNCHANGED <<fn, datos, capital, args, ret, otra, perifericos>>

\* the value the called function returns on the arguments
Aplicar ==
    CASE fn = "calcular_tamano_posicion" ->
            calcular_tamano_posicion(args.capital, args.precio_entrada, args.stop_loss)
      [] fn = "calcular_niveles_fib" ->
            calcular_niveles_fib(args.high, args.low, args.precio_actual, args.tendencia)
      [] fn = "puntuacion_global" ->
            [global |-> puntuacion_global(args.tecnica, args.sentimiento, args.blockchain),
             decision |-> decidir(puntuacion_global(args.tecnica, args.sentimiento,
                                                    args.blockchain))]
      [] fn = "calcular_puntuacion_sentimiento" ->
            calcular_puntuacion_sentimiento(datos)
      [] fn = "calcular_puntuacion_blockchain" ->
            calcular_puntuacion_blockchain(datos)
      [] fn = "calcular_puntuacion_tecnica" ->
            calcular_puntuacion_tecnica(datos)
      [] fn = "_calcular_niveles_tradicionales" ->
            _calcular_niveles_tradicionales(datos, args.puntuacion_global)
      [] fn = "calcular_niveles_operacion" ->
            calcular_niveles_operacion(datos, args.puntuacion_global)
      \* the zone returned, with the locals entrada_candidatos and entrada_nivel
      [] fn = "identificar_zonas_operacion" ->
            [zonas |-> identificar_zonas_operacion(args.niveles, args.precio_actual,
                                                   args.tendencia),
             entrada_candidatos |->
                entrada_candidatos(args.niveles.retracements, args.precio_actual,
                                   args.tendencia),
             entrada_nivel |->
                entrada_nivel(args.niveles.retracements, args.precio_actual,
                              args.tendencia)]
      \* the pair returned, or the ValueError of max() and min() on an empty list
      [] fn = "analizar_estructura_precio" ->
            IF EstructuraRaises(args.precios_maximos, args.precios_minimos)
            THEN [raises |-> TRUE, valor |-> SinAnalisis]
            ELSE [raises |-> FALSE,
                  valor |-> analizar_estructura_precio(args.precios_maximos,
                                                       args.precios_minimos,
                                                       args.precio_actual)]

Llamar ==
    /\ pc = "aplicar"
    /\ ret' = <<Aplicar>>
    /\ pc' = "aplicado"
    /\ UNCHANGED <<fn, datos, capital, traza, resultado, args, instancia, otra, perifericos>>

Next ==
    \/ Puntuar
    \/ Fusionar
    \/ CalcularNiveles
    \/ CalcularTamano
    \/ Retornar
    \/ RetornarPorDefecto
    \/ Llamar

Spec == Init /\ [][Next]_vars

----------------------------------------------------------------------------
(* Two calls of generar_decision_trading on one analyzer                   *)

\* the caller c after the statement it runs next: the statements of Puntuar,
\* Fusionar, CalcularNiveles, CalcularTamano, Retornar and RetornarPorDefecto
\* on the caller's own arguments and locals
Paso(c) ==
    CASE c.pc = "puntuar" ->
            [c EXCEPT !.traza.tecnica = calcular_puntuacion_tecnica(c.datos),
                      !.traza.sentimiento = calcular_puntuacion_sentimiento(c.datos),
                      !.traza.blockchain = calcular_puntuacion_blockchain(c.datos),
                      !.pc = "fusionar"]
      [] c.pc = "fusionar" ->
            [c EXCEPT !.traza.global =
                          puntuacion_global(c.traza.tecnica, c.traza.sentimiento,
                                            c.traza.blockchain),
                      !.traza.decision =
                          decidir(puntuacion_global(c.traza.tecnica, c.traza.sentimiento,
                                                    c.traza.blockchain)),
                      !.pc = "niveles"]
      [] c.pc = "niveles" ->
            [c EXCEPT !.traza.niveles =
                          calcular_niveles_operacion(c.datos, c.traza.global),
                      !.pc = "tamano"]
      [] c.pc = "tamano" ->
            [c EXCEPT !.traza.tamano =
                          IF c.traza.niveles.vacio THEN Entero(0)
                          ELSE calcular_tamano_posicion(c.capital,
                                   Get(c.traza.niveles.entrada, Entero(0)),
                                   Get(c.traza.niveles.stop_loss, Entero(0))),
                      !.pc = "retornar"]
      [] c.pc = "retornar" /\ ~RetornoRaises(c.datos, c.capital) ->
            [c EXCEPT !.resultado =
                          decision_normal(c.datos, c.capital, c.traza.tecnica,
                                          c.traza.sentimiento, c.traza.blockchain,
                                          c.traza.global, c.traza.niveles,
                                          c.traza.tamano),
                      !.pc = "retornado"]
      [] c.pc = "retornar" /\ RetornoRaises(c.datos, c.capital) ->
            [c EXCEPT !.resultado = decision_por_defecto,
                      !.traza.excepcion = TRUE,
                      !.pc = "retornado"]
      [] OTHER -> c

\* the caller c when its call has run to its return with no other call
RECURSIVE Ejecutar(_)
Ejecutar(c) == IF c.pc = "retornado" THEN c ELSE Ejecutar(Paso(c))

\* the record generar_decision_trading(d, c) returns when it runs alone
Solo(d, c) == Ejecutar(Inicio(d, c)).resultado

\* the calls that run concurrently: the empty dictionary, None, and inputs
\* that take the Fibonacci and the traditional levels, with a capital that
\* is a number and one that makes the call answer its safe default
DatosConcurrentes ==
    {DatosVacio, DatosNone}
    \cup {Datos(SeccionMercado(precio),
                SeccionTecnico(SeccionIndicadores(rsi, Entero(1), Absent, Entero(5),
                                                  b[1], b[2], Entero(3)),
                               SeccionPatrones("ALCISTA", R(3, 4))),
                SeccionSentimiento(SeccionMenciones(Entero(3), Entero(1))),
                SeccionBlockchain("ALTO", "ACUMULACION")) :
             precio \in {Entero(100), Entero(120)}, rsi \in {Entero(25), Entero(100)},
             b \in {<<Absent, Absent>>, <<Entero(110), Entero(95)>>}}

LlamadasConcurrentes == DatosConcurrentes \X {Entero(100), Str}

InitConcurrente ==
    /\ instancia = InstanciaInicial
    /\ SinPerifericos
    /\ fn = "generar_decision_trading"
    /\ pc = "puntuar"
    /\ \E ll \in LlamadasConcurrentes : datos = ll[1] /\ capital = ll[2]
    /\ traza = SinTraza
    /\ resultado = SinResultado
    /\ args = <<>>
    /\ ret = <<>>
    /\ \E ll \in LlamadasConcurrentes : otra = Inicio(ll[1], ll[2])

\* the second call runs its next statement, lines 206-286
OtraPaso ==
    /\ otra.pc \notin {"inactivo", "retornado"}
    /\ otra' = Paso(otra)
    /\ instancia' = instancia_tras(otra, instancia)
    /\ UNCHANGED <<fn, pc, datos, capital, traza, resultado, args, ret, perifericos>>

NextConcurrente ==
    \/ Puntuar
    \/ Fusionar
    \/ CalcularNiveles
    \/ CalcularTamano
    \/ Retornar
    \/ RetornarPorDefecto
    \/ OtraPaso

SpecConcurrente == InitConcurrente /\ [][NextConcurrente]_vars

----------------------------------------------------------------------------
(* SistemaAlertas as a state machine                                       *)

\* no call of the analyzer is under way
AnalizadorInactivo ==
    /\ instancia = InstanciaInicial
    /\ otra = OtraInactiva
    /\ fn = "ninguna"
    /\ pc = "inactivo"
    /\ datos = DatosVacio
    /\ capital = Absent
    /\ traza = SinTraza
    /\ resultado = SinResultado
    /\ args = <<>>
    /\ ret = <<>>

\* SistemaAlertas.__init__, lines 9-16
InitAlertas ==
    /\ AnalizadorInactivo
    /\ alertas_activas = <<>>
    /\ despachos = <<>>
    /\ gestor = SinGestor
    /\ ultimo_tamano = SinTamano
    /\ en_orden = TRUE

\* configurar_alertas_personalizadas, lines 18-33
Configurar ==
    /\ Len(alertas_activas) < MaxAlertas
    /\ \E s \in SimbolosAlerta, c \in CondicionesAlerta :
          alertas_activas' = Append(alertas_activas, NuevaAlerta(s, c))
    /\ UNCHANGED <<analizador, despachos, gestor, ultimo_tamano, en_orden>>

\* monitorear_alertas, lines 35-47, run to its end or to the exception that
\* leaves it: nothing in it suspends, so no other call runs in between
Monitorear ==
    /\ Len(despachos) < MaxDespachos
    /\ \E d \in Instantaneas :
          \E fin \in {monitorear_desde(1, [alertas_activas |-> alertas_activas,
                                           despachos |-> despachos,
                                           excepcion |-> FALSE], d)} :
             /\ alertas_activas' = fin.alertas_activas
             /\ despachos' = fin.despachos
    /\ UNCHANGED <<analizador, gestor, ultimo_tamano, en_orden>>

NextAlertas ==
    \/ Configurar
    \/ Monitorear

SpecAlertas == InitAlertas /\ [][NextAlertas]_vars

----------------------------------------------------------------------------
(* GestorRiesgoAvanzado as a state machine                                 *)

\* GestorRiesgoAvanzado(capital_total) has been constructed
InitRiesgo ==
    /\ AnalizadorInactivo
    /\ alertas_activas = <<>>
    /\ despachos = <<>>
    /\ \E c \in CapitalesGestor : gestor = NuevoGestor(c)
    /\ ultimo_tamano = SinTamano
    /\ en_orden = TRUE

\* a call of calcular_tamaño_posicion_avanzado, lines 189-239
Dimensionar ==
    /\ \E s \in Senales, d \in DatosGestor :
          ultimo_tamano' = calcular_tamano_posicion_avanzado(gestor, s, d)
    /\ UNCHANGED <<analizador, alertas_activas, despachos, gestor, en_orden>>

\* registrar_operacion on the position that the call just before returned
Registrar ==
    /\ Len(gestor.operaciones_activas) < MaxOperaciones
    /\ ultimo_tamano.tipo = "posicion"
    /\ \E medianoche \in BOOLEAN :
          gestor' = registrar_operacion(gestor, ultimo_tamano, medianoche)
    /\ ultimo_tamano' = SinTamano
    /\ UNCHANGED <<analizador, alertas_activas, despachos, en_orden>>

\* registrar_operacion once more on the position registered last
RegistrarDeNuevo ==
    /\ Len(gestor.operaciones_activas) < MaxOperaciones
    /\ Len(gestor.operaciones_activas) > 0
    /\ ultimo_tamano.tipo = "ninguno"
    /\ \E medianoche \in BOOLEAN :
          gestor' = registrar_operacion(
                        gestor,
                        gestor.operaciones_activas[Len(gestor.operaciones_activas)],
                        medianoche)
    /\ en_orden' = FALSE
    /\ UNCHANGED <<analizador, alertas_activas, despachos, ultimo_tamano>>

NextRiesgo ==
    \/ Dimensionar
    \/ Registrar
    \/ RegistrarDeNuevo

SpecRiesgo == InitRiesgo /\ [][NextRiesgo]_vars

----------------------------------------------------------------------------
(* Properties                                                              *)

EnDecision == fn = "generar_decision_trading"

Retornado == EnDecision /\ pc = "retornado"

Aplicado(f) == fn = f /\ pc = "aplicado"

ClavesDecision ==
    {"decision", "confianza", "explicacion", "niveles_operacion", "gestion_riesgo",
     "analisis_detallado"}

\* C1: generar_decision_trading is total: whatever the shape of datos and the
\* value of capital, the call returns a record with the six keys decision,
\* confianza, explicacion, niveles_operacion, gestion_riesgo and
\* analisis_detallado, and no exception leaves the call.
C1_Total ==
    /\ (EnDecision /\ pc = "retornar") => ENABLED (Retornar \/ RetornarPorDefecto)
    /\ Retornado =>
          /\ resultado.forma = "record"
          /\ ClavesDecision \subseteq DOMAIN resultado
          /\ resultado.decision \in {"COMPRAR", "VENDER", "MANTENER"}
          /\ IsNum(resultado.confianza)

\* C1 witness: the call returned although datos is None and capital is a string
C1_Witness == Retornado /\ datos.forma = "none" /\ capital = Str

\* the fixed record of the except block, written out
RegistroSeguro ==
    /\ resultado.forma = "record"
    /\ resultado.decision = "MANTENER"
    /\ resultado.confianza = Entero(50)
    /\ resultado.explicacion = "Error en analisis, mantener posiciones actuales"
    /\ resultado.niveles_operacion.vacio
    /\ resultado.gestion_riesgo.vacio
    /\ resultado.analisis_detallado.vacio

\* C2: whenever an exception reaches the top level of generar_decision_trading
\* (datos is not a mapping, capital is not a number, fuerza_tendencia is not a
\* number, the technical section or its patterns are None), the record returned
\* is exactly the fixed safe default, whatever the sub-scores were; and a record
\* returned without such an exception is not the safe default.
C2_SafeDefault ==
    Retornado =>
        LET alcanza ==
                \/ datos.forma # "dict"
                \/ ~IsNum(capital)
                \/ datos.analisis_tecnico_ml.forma = "none"
                \/ datos.analisis_tecnico_ml.patrones_identificados.forma = "none"
                \/ datos.analisis_tecnico_ml.patrones_identificados.fuerza_tendencia.k
                       \in {"none", "str"}
        IN  /\ alcanza = traza.excepcion
            /\ alcanza => RegistroSeguro
            /\ ~alcanza => ~resultado.niveles_operacion.vacio

\* C2 witness: the safe default is returned although the sub-scores were not
\* neutral (capital is a string, the global score would have meant COMPRAR)
C2_Witness ==
    /\ Retornado /\ traza.excepcion /\ capital = Str
    /\ traza.decision = "COMPRAR" /\ traza.tecnica # Medio

\* the label that the thresholds give the score n/d, on integers
Etiqueta(g) ==
    IF 10 * g.n > 7 * g.d THEN "COMPRAR"
    ELSE IF 10 * g.n < 3 * g.d THEN "VENDER"
    ELSE "MANTENER"

\* C3: the decision label is a function of the global score with strict
\* thresholds: COMPRAR iff global > 0.7, VENDER iff global < 0.3, MANTENER
\* otherwise; a global score of exactly 0.7 or exactly 0.3 yields MANTENER.
C3_Thresholds ==
    /\ (EnDecision /\ pc \in {"niveles", "tamano", "retornar", "retornado"}) =>
          /\ traza.decision = Etiqueta(traza.global)
          /\ traza.global \in {R(7, 10), R(3, 10)} => traza.decision = "MANTENER"
    /\ (Retornado /\ ~traza.excepcion) => resultado.decision = Etiqueta(traza.global)
    /\ Aplicado("puntuacion_global") => ret[1].decision = Etiqueta(ret[1].global)

\* C3 witness: a call returned MANTENER on a global score of exactly 0.7
C3_Witness ==
    /\ Retornado /\ ~traza.excepcion
    /\ traza.global = R(7, 10) /\ resultado.decision = "MANTENER"

\* x <= y on the numbers x and y
Menor(x, y) == ~LtFrac(y.n, y.d, x.n, x.d)

\* C4: on the normal path the global score equals
\* 0.4*technical + 0.3*sentiment + 0.3*onchain, so it lies between the least
\* and the greatest of the three sub-scores, and the reported confianza is
\* global*100 to 2 decimals and lies in [0,100] (the sub-scores lie in [0,1]).
C4_Convex ==
    (EnDecision /\ pc \in {"niveles", "tamano", "retornar", "retornado"}) =>
        LET t == traza.tecnica
            s == traza.sentimiento
            b == traza.blockchain
            g == traza.global
        IN  /\ \A x \in {t, s, b} : Menor(Entero(0), x) /\ Menor(x, Entero(1))
            /\ 10 * g.n * (t.d * s.d * b.d)
                  = g.d * (4 * t.n * s.d * b.d + 3 * s.n * t.d * b.d + 3 * b.n * t.d * s.d)
            /\ \E x \in {t, s, b} : Menor(x, g)
            /\ \E x \in {t, s, b} : Menor(g, x)
            /\ (pc = "retornado" /\ ~traza.excepcion) =>
                  LET c == resultado.confianza
                  IN  /\ Menor(Entero(0), c) /\ Menor(c, Entero(100))
                      /\ 100 % c.d = 0
                      \* |c - 100 g| <= 0.005
                      /\ 200 * Abs(c.n * g.d - 100 * g.n * c.d) <= c.d * g.d

\* C4 witness: a normal return on three different sub-scores, the global score
\* strictly between the least and the greatest, confianza not a whole number
C4_Witness ==
    /\ Retornado /\ ~traza.excepcion
    /\ Cardinality({traza.tecnica, traza.sentimiento, traza.blockchain}) = 3
    /\ resultado.confianza.d # 1

Rango(decision) ==
    CASE decision = "VENDER" -> 0 [] decision = "MANTENER" -> 1 [] decision = "COMPRAR" -> 2

\* the fusion of the sub-scores a: its global score and the rank of its label
FusionDe(a) ==
    LET g == puntuacion_global(a.tecnica, a.sentimiento, a.blockchain)
    IN  [global |-> g, rango |-> Rango(decidir(g))]

\* the arguments that raise one sub-score of a and keep the other two
Mayores(a) ==
    {b \in ArgsFusion :
        \E campo \in {"tecnica", "sentimiento", "blockchain"} :
            /\ Menor(a[campo], b[campo])
            /\ \A otro \in {"tecnica", "sentimiento", "blockchain"} \ {campo} :
                  b[otro] = a[otro]}

\* C5: the global score is monotonic non-decreasing in each of the three
\* sub-scores with the other two held fixed, so raising one sub-score never
\* moves the decision downward in the order VENDER < MANTENER < COMPRAR.
C5_Monotonic ==
    Aplicado("puntuacion_global") =>
        \A b \in Mayores(args) :
            /\ Menor(ret[1].global, FusionDe(b).global)
            /\ Rango(ret[1].decision) <= FusionDe(b).rango

\* C5 witness: a fusion that gave VENDER where some raise of the sentiment alone
\* gives MANTENER and some raise of the technical score alone still VENDER
C5_Witness ==
    /\ Aplicado("puntuacion_global") /\ ret[1].decision = "VENDER"
    /\ \E b \in Mayores(args) :
          b.sentimiento # args.sentimiento /\ FusionDe(b).rango = 1
    /\ \E b \in Mayores(args) :
          b.tecnica # args.tecnica /\ FusionDe(b).rango = 0

PrecioCero == Get(datos.datos_mercado.precio_actual, Entero(0)) = Entero(0)

\* C6: calcular_tamano_posicion never divides by zero and never raises: it
\* returns a number, and 0 whenever capital, entry or stop is zero or missing
\* or entry equals stop; generar_decision_trading computes the size 0, and
\* reports tamano_posicion = 0 in its normal record, when the current price is
\* zero or absent.
C6_ZeroSize ==
    /\ Aplicado("calcular_tamano_posicion") =>
          /\ IsNum(ret[1])
          /\ (\/ \E x \in {args.capital, args.precio_entrada, args.stop_loss} :
                    x \in {None, Entero(0)}
              \/ (IsNum(args.precio_entrada) /\ args.precio_entrada = args.stop_loss))
             => ret[1] = Entero(0)
    /\ (EnDecision /\ pc \in {"retornar", "retornado"} /\ PrecioCero) =>
          /\ traza.tamano = Entero(0)
          /\ (pc = "retornado" /\ ~traza.excepcion) =>
                resultado.gestion_riesgo.tamano_posicion = Entero(0)

\* C6 witness: a sizing with non-zero capital, entry and stop where entry
\* equals stop (the risk per unit is zero) returned 0
C6_Witness ==
    /\ Aplicado("calcular_tamano_posicion")
    /\ args.capital = Entero(100)
    /\ args.precio_entrada = Entero(5) /\ args.stop_loss = Entero(5)
    /\ ret[1] = Entero(0)

\* a sizing of non-zero numbers with entry # stop
TamanoRegular ==
    /\ Aplicado("calcular_tamano_posicion")
    /\ \A x \in {args.capital, args.precio_entrada, args.stop_loss} :
          IsNum(x) /\ x # Entero(0)
    /\ args.precio_entrada # args.stop_loss

\* units * |entry - stop| - 2% of capital
ErrorDeRiesgo ==
    RSub(RMul(ret[1], RAbs(RSub(args.precio_entrada, args.stop_loss))),
         RMul(args.capital, R(2, 100)))

\* C7 as stated: for all non-zero capital, entry and stop with entry # stop,
\* units * |entry - stop| equals 2% of capital.
C7_Original == TamanoRegular => ErrorDeRiesgo = Entero(0)

\* C7 amended: for all non-zero capital, entry and stop with entry # stop,
\* units is (capital * 0.02) / |entry - stop| rounded to 8 decimals, so
\* units * |entry - stop| equals 2% of capital up to the rounding of units: the
\* two differ by at most 0.5e-8 * |entry - stop|; (10000, 100, 98) gives 100.
C7_Units ==
    /\ TamanoRegular =>
          /\ Pow10(8) % ret[1].d = 0
          /\ Menor(RAbs(ErrorDeRiesgo),
                   RMul(R(1, 2 * Pow10(8)),
                        RAbs(RSub(args.precio_entrada, args.stop_loss))))
    /\ (TamanoRegular /\ args.capital = Entero(10000) /\ args.stop_loss = Entero(98))
          => ret[1] = Entero(100)

\* C7 witness: a sizing whose quotient 2/3 has no 8-digit expansion
C7_Witness ==
    /\ TamanoRegular /\ args.capital = Entero(100)
    /\ args.precio_entrada = Entero(7) /\ args.stop_loss = Entero(4)
    /\ ret[1] = R(66666667, Pow10(8))

\* the extreme in the trend's favour, and the opposite one
Favorable == IF args.tendencia = "ALCISTA" THEN args.high ELSE args.low
Opuesto == IF args.tendencia = "ALCISTA" THEN args.low ELSE args.high

\* y is x rounded to 8 decimals: a multiple of 1e-8 within 0.5e-8 of x
Redondeado(x, y) ==
    /\ Pow10(8) % y.d = 0
    /\ Menor(RAbs(RSub(y, x)), R(1, 2 * Pow10(8)))

\* C8 as stated: for all high >= low and trend in {ALCISTA, BAJISTA},
\* calcular_niveles_fib maps ratio 0 to the trend-favourable extreme and
\* ratio 1 to the opposite extreme.
C8_Original ==
    Aplicado("calcular_niveles_fib") =>
        /\ ret[1].retracements[Ret0] = Favorable
        /\ ret[1].retracements[Ret1] = Opuesto

\* C8 amended: for all high >= low and trend in {ALCISTA, BAJISTA},
\* calcular_niveles_fib maps ratio 0 to the trend-favourable extreme rounded to
\* 8 decimals (high if ALCISTA, low if BAJISTA) and ratio 1 to the opposite
\* extreme rounded to 8 decimals; the two are the extremes themselves when
\* these have at most 8 decimals.
C8_Extremes ==
    Aplicado("calcular_niveles_fib") =>
        /\ Redondeado(Favorable, ret[1].retracements[Ret0])
        /\ Redondeado(Opuesto, ret[1].retracements[Ret1])
        /\ Pow10(8) % Favorable.d = 0 => ret[1].retracements[Ret0] = Favorable
        /\ Pow10(8) % Opuesto.d = 0 => ret[1].retracements[Ret1] = Opuesto

\* C8 witness: the levels of a bearish range from 1/3 to 2 (ratio 0 is the low
\* to 8 decimals, ratio 1 is the high)
C8_Witness ==
    /\ Aplicado("calcular_niveles_fib") /\ args.tendencia = "BAJISTA"
    /\ args.low = R(1, 3) /\ args.high = Entero(2)
    /\ ret[1].retracements[Ret0] = R(33333333, Pow10(8))
    /\ ret[1].retracements[Ret1] = Entero(2)

\* C9 as stated: for all high >= low the 1.618 extension is strictly greater
\* than high (ALCISTA) or strictly less than low (BAJISTA).
C9_Original ==
    Aplicado("calcular_niveles_fib") =>
        IF args.tendencia = "ALCISTA" THEN RLt(args.high, ret[1].extensions[Ext1618])
        ELSE RLt(ret[1].extensions[Ext1618], args.low)

\* C9 amended: for all high > low (by at least 2e-8, which the rounding to 8
\* decimals cannot absorb) the 1.618 extension lies strictly beyond the range
\* bound in the trend direction: above high for ALCISTA, below low for BAJISTA;
\* for high = low the levels are flat and the 1.618 extension is that bound
\* rounded to 8 decimals.
C9_Extensions ==
    Aplicado("calcular_niveles_fib") =>
        /\ Menor(R(2, Pow10(8)), RSub(args.high, args.low)) =>
              IF args.tendencia = "ALCISTA"
              THEN RLt(args.high, ret[1].extensions[Ext1618])
              ELSE RLt(ret[1].extensions[Ext1618], args.low)
        /\ args.high = args.low =>
              /\ Redondeado(args.high, ret[1].extensions[Ext1618])
              /\ Pow10(8) % args.high.d = 0 => ret[1].extensions[Ext1618] = args.high

\* C9 witness: the extensions of a bullish range from 1 to 2
C9_Witness ==
    /\ Aplicado("calcular_niveles_fib") /\ args.tendencia = "ALCISTA"
    /\ args.low = Entero(1) /\ args.high = Entero(2)
    /\ ret[1].extensions[Ext1618] = R(2618, 1000)

\* the mention counts read from datos
Positivas == Get(datos.analisis_sentimiento.menciones_24h.positivas, Entero(0))
Negativas == Get(datos.analisis_sentimiento.menciones_24h.negativas, Entero(0))

\* C10: for all non-negative mention counts calcular_puntuacion_sentimiento
\* returns positivas / (positivas + negativas) when the sum is positive and 0.5
\* when both counts are zero or absent; the result lies in [0,1].
C10_Sentiment ==
    Aplicado("calcular_puntuacion_sentimiento") =>
        /\ Positivas.n + Negativas.n > 0 =>
              ret[1].n * (Positivas.n + Negativas.n) = Positivas.n * ret[1].d
        /\ Positivas.n + Negativas.n = 0 => ret[1] = R(1, 2)
        /\ Menor(Entero(0), ret[1]) /\ Menor(ret[1], Entero(1))

\* C10 witness: 2 positive and 5 negative mentions score 2/7
C10_Witness ==
    /\ Aplicado("calcular_puntuacion_sentimiento")
    /\ Positivas = Entero(2) /\ Negativas = Entero(5) /\ ret[1] = R(2, 7)

\* the two scoring tables of the on-chain score, in tenths
DecimasActividad(l) ==
    IF l = "ALTO" THEN 10 ELSE IF l = "MODERADO" THEN 7 ELSE IF l = "BAJO" THEN 3 ELSE 5
DecimasBallenas(l) ==
    IF l = "ACUMULACION" THEN 10 ELSE IF l = "DISTRIBUCION" THEN 0 ELSE 5

\* C11: calcular_puntuacion_blockchain returns the average of the activity
\* score (ALTO 1.0, MODERADO 0.7, BAJO 0.3, any other label 0.5) and the whale
\* score (ACUMULACION 1.0, NEUTRAL 0.5, DISTRIBUCION 0.0, any other label 0.5);
\* (ALTO, ACUMULACION) gives 1.0 and (BAJO, DISTRIBUCION) gives 0.15.
C11_Blockchain ==
    Aplicado("calcular_puntuacion_blockchain") =>
        LET act == datos.analisis_blockchain.institutional_activity
            bal == datos.analisis_blockchain.sentiment
        IN  /\ (act # "absent" /\ bal # "absent") =>
                  /\ IsNum(ret[1])
                  /\ 20 * ret[1].n = (DecimasActividad(act) + DecimasBallenas(bal)) * ret[1].d
            /\ (act = "ALTO" /\ bal = "ACUMULACION") => ret[1] = Entero(1)
            /\ (act = "BAJO" /\ bal = "DISTRIBUCION") => ret[1] = R(15, 100)

\* C11 witness: moderate activity with distribution scores 0.35
C11_Witness ==
    /\ Aplicado("calcular_puntuacion_blockchain")
    /\ datos.analisis_blockchain.institutional_activity = "MODERADO"
    /\ datos.analisis_blockchain.sentiment = "DISTRIBUCION"
    /\ ret[1] = R(35, 100)

\* the section of a domain is missing from datos, which is a dictionary
SinSeccionTecnica ==
    /\ datos.forma = "dict"
    /\ \/ datos.analisis_tecnico_ml.forma = "absent"
       \/ /\ datos.analisis_tecnico_ml.forma = "dict"
          /\ datos.analisis_tecnico_ml.indicadores_clave.forma = "absent"
SinSeccionSentimiento ==
    /\ datos.forma = "dict"
    /\ \/ datos.analisis_sentimiento.forma = "absent"
       \/ /\ datos.analisis_sentimiento.forma = "dict"
          /\ datos.analisis_sentimiento.menciones_24h.forma = "absent"
SinSeccionBlockchain ==
    datos.forma = "dict" /\ datos.analisis_blockchain.forma = "absent"

\* a decision record was returned
HayDecision ==
    /\ resultado.forma = "record"
    /\ resultado.decision \in {"COMPRAR", "VENDER", "MANTENER"}

Fallidas ==
    {x \in {"tecnica", "sentimiento", "blockchain"} :
        \/ x = "tecnica" /\ TecnicaRaises(datos)
        \/ x = "sentimiento" /\ SentimientoRaises(datos)
        \/ x = "blockchain" /\ BlockchainRaises(datos)}

\* C13: if the computation of one sub-score fails, that sub-score becomes 0.5
\* and the fusion, the level computation and the sizing still run and a normal
\* record, not the safe default, is returned (capital being a number).
C13_Isolation ==
    (Retornado /\ datos.forma = "dict" /\ IsNum(capital) /\ Cardinality(Fallidas) = 1) =>
        /\ \A x \in Fallidas : traza[x] = R(1, 2)
        /\ IsNum(traza.global) /\ IsNum(traza.tamano)
        /\ ~traza.excepcion
        /\ resultado.analisis_detallado.vacio = FALSE

\* the indicators read from datos, an absent one as the integer it defaults to
\* (the explored indicators are integers)
IndicadorLeido(campo, defecto) ==
    Get(datos.analisis_tecnico_ml.indicadores_clave[campo], Entero(defecto)).n
PrecioLeido == Get(datos.datos_mercado.precio_actual, Entero(0)).n

\* the RSI component in fiftieths, the MACD and momentum components, as the
\* claim states them
RsiCincuentavos ==
    LET r == IndicadorLeido("RSI", 50)
        lejos == IF r >= 50 THEN r - 50 ELSE 50 - r
    IN  IF 40 <= r /\ r <= 60 THEN 50 ELSE IF lejos >= 50 THEN 0 ELSE 50 - lejos
MacdEsperado ==
    IF IndicadorLeido("MACD", 0) > IndicadorLeido("MACD_Signal", 0) THEN 1 ELSE 0
MomentumEsperado == IF IndicadorLeido("Momentum", 0) > 0 THEN 1 ELSE 0

\* 500 times what the technical score leaves for the Bollinger component
\* once the other three components are taken off: 150 * bollinger
RestoBollinger ==
    LET num == 500 * ret[1].n
                  - (3 * RsiCincuentavos + 100 * MacdEsperado + 100 * MomentumEsperado)
                    * ret[1].d
    IN  IF num % ret[1].d = 0 THEN num \div ret[1].d ELSE -1

\* the spec scenario: RSI 25, MACD 1 over signal 0, momentum 5, price 90 below
\* the lower band 95
EscenarioTecnico ==
    /\ IndicadorLeido("RSI", 50) = 25
    /\ IndicadorLeido("MACD", 0) = 1 /\ IndicadorLeido("MACD_Signal", 0) = 0
    /\ IndicadorLeido("Momentum", 0) = 5
    /\ PrecioLeido = 90
    /\ IndicadorLeido("BB_Inferior", 0) = 95 /\ IndicadorLeido("BB_Superior", 0) = 110

\* C14: calcular_puntuacion_tecnica returns
\* 0.3*rsi + 0.2*macd + 0.2*momentum + 0.3*bollinger, the RSI component being 1
\* in [40,60] and max(0, 1 - |RSI-50|/50) outside, MACD 1 iff MACD > signal,
\* momentum 1 iff momentum > 0 (and bollinger one of 0, 0.5, 1); the result
\* lies in [0,1] for every numeric input; the spec scenario gives 0.85, and
\* with sentiment 0.5 and on-chain 0.5 the global score 0.64 and MANTENER.
C14_Tecnica ==
    /\ Aplicado("calcular_puntuacion_tecnica") =>
          /\ IsNum(ret[1])
          /\ RestoBollinger \in {0, 75, 150}
          /\ Menor(Entero(0), ret[1]) /\ Menor(ret[1], Entero(1))
          /\ EscenarioTecnico => ret[1] = R(85, 100)
    /\ (Retornado /\ ~traza.excepcion /\ EscenarioTecnico
        /\ traza.sentimiento = R(1, 2) /\ traza.blockchain = R(1, 2)) =>
          /\ traza.tecnica = R(85, 100)
          /\ traza.global = R(64, 100)
          /\ resultado.decision = "MANTENER"
          /\ resultado.confianza = Entero(64)

\* C14 witness: the decision on the spec scenario with neutral sentiment and
\* on-chain scores
C14_Witness ==
    /\ Retornado /\ ~traza.excepcion /\ EscenarioTecnico
    /\ traza.sentimiento = R(1, 2) /\ traza.blockchain = R(1, 2)
    /\ traza.global = R(64, 100)

\* the Bollinger component in halves, by the position of the price alone
BollingerPorPosicion ==
    IF PrecioLeido < IndicadorLeido("BB_Inferior", 0) THEN 2
    ELSE IF PrecioLeido > IndicadorLeido("BB_Superior", 0) THEN 0
    ELSE 1

\* C16 as stated: the Bollinger component is 1.0 whenever the price is below
\* the lower band, 0.0 whenever it is above the upper band and 0.5 otherwise,
\* for every combination of price and bands, zero or defaulted values included.
C16_Original ==
    Aplicado("calcular_puntuacion_tecnica") => RestoBollinger = 75 * BollingerPorPosicion

\* C16 amended: when the price and both bands are non-zero (and present), the
\* Bollinger component is 1.0 if the price is below the lower band, else 0.0 if
\* it is above the upper band, else 0.5; when the price or either band is zero
\* or absent the component is 0.5 wherever the price lies.
C16_Bollinger ==
    Aplicado("calcular_puntuacion_tecnica") =>
        RestoBollinger =
            IF PrecioLeido # 0 /\ IndicadorLeido("BB_Inferior", 0) # 0
               /\ IndicadorLeido("BB_Superior", 0) # 0
            THEN 75 * BollingerPorPosicion
            ELSE 75

\* C16 witness: a price of 90 under the lower band 95 with no upper band: 0.5
C16_Witness ==
    /\ Aplicado("calcular_puntuacion_tecnica")
    /\ PrecioLeido = 90 /\ IndicadorLeido("BB_Inferior", 0) = 95
    /\ datos.analisis_tecnico_ml.indicadores_clave.BB_Superior = Entero(0)
    /\ RestoBollinger = 75

\* the price and the volatility of the fallback: the ATR, or 2% of the price
\* when the ATR is absent or zero
PrecioTradicional == Get(datos.datos_mercado.precio_actual, Entero(0))
VolatilidadEsperada ==
    LET atr == Get(datos.analisis_tecnico_ml.indicadores_clave.ATR, Entero(0))
    IN  IF atr = Entero(0) THEN RMul(PrecioTradicional, R(2, 100)) ELSE atr

\* the branch of the fallback: "compra" above 0.7, "venta" below 0.3
RamaTradicional ==
    LET g == args.puntuacion_global
    IN  IF 10 * g.n > 7 * g.d THEN "compra"
        ELSE IF 10 * g.n < 3 * g.d THEN "venta" ELSE "neutral"

\* entry, stop and target as the claim states them
NivelesEsperados ==
    LET p == PrecioTradicional
        v == VolatilidadEsperada
        e == CASE RamaTradicional = "compra" -> RMul(p, R(99, 100))
               [] RamaTradicional = "venta" -> RMul(p, R(101, 100))
               [] OTHER -> p
    IN  [entrada |-> e,
         stop_loss |->
            CASE RamaTradicional = "compra" -> RSub(e, RMul(R(3, 2), v))
              [] RamaTradicional = "venta" -> RAdd(e, RMul(R(3, 2), v))
              [] OTHER -> RSub(e, v),
         take_profit |->
            CASE RamaTradicional = "compra" -> RAdd(e, RMul(Entero(3), v))
              [] RamaTradicional = "venta" -> RSub(e, RMul(Entero(3), v))
              [] OTHER -> RAdd(e, v)]

\* C17 as stated: for a non-zero price the fallback returns entry, stop and
\* target by the three branches, the ATR replaced by 2% of the price when
\* absent or zero; a zero or absent price yields an empty result.
C17_Original ==
    Aplicado("_calcular_niveles_tradicionales") =>
        IF PrecioTradicional = Entero(0) THEN ret[1].vacio
        ELSE /\ ~ret[1].vacio
             /\ ret[1].entrada = NivelesEsperados.entrada
             /\ ret[1].stop_loss = NivelesEsperados.stop_loss
             /\ ret[1].take_profit = NivelesEsperados.take_profit

\* C17 amended: for a non-zero price the fallback computes entry, stop and
\* target by the three branches (global > 0.7: price*0.99, entry - 1.5*ATR,
\* entry + 3*ATR; global < 0.3: price*1.01, entry + 1.5*ATR, entry - 3*ATR;
\* otherwise price, entry - ATR, entry + ATR), the ATR replaced by 2% of the
\* price when absent or zero, and returns each of the three rounded to 8
\* decimals (stop and target being computed from the unrounded entry); a zero
\* or absent price yields an empty result.
C17_Tradicionales ==
    Aplicado("_calcular_niveles_tradicionales") =>
        IF PrecioTradicional = Entero(0) THEN ret[1].vacio
        ELSE /\ ~ret[1].vacio
             /\ Redondeado(NivelesEsperados.entrada, ret[1].entrada)
             /\ Redondeado(NivelesEsperados.stop_loss, ret[1].stop_loss)
             /\ Redondeado(NivelesEsperados.take_profit, ret[1].take_profit)

\* C17 witness: price 1 with an ATR of one third and a global score of 0.5:
\* the stop 2/3 and the target 4/3 are returned to 8 decimals
C17_Witness ==
    /\ Aplicado("_calcular_niveles_tradicionales")
    /\ PrecioTradicional = Entero(1) /\ VolatilidadEsperada = R(1, 3)
    /\ RamaTradicional = "neutral"
    /\ ret[1].entrada = Entero(1)
    /\ ret[1].stop_loss = R(66666667, Pow10(8))
    /\ ret[1].take_profit = R(133333333, Pow10(8))

\* what generar_recomendacion_fib and _calcular_niveles_tradicionales return
\* on the arguments of the call
ZonaFib == generar_recomendacion_fib(datos.datos_mercado, datos.analisis_tecnico_ml)
Respaldo == _calcular_niveles_tradicionales(datos, args.puntuacion_global)

\* the levels returned are those of the zone z
EsZona(z) ==
    /\ ~ret[1].vacio
    /\ ret[1].origen = "fibonacci"
    /\ ret[1].entrada = z.entrada
    /\ ret[1].stop_loss = z.stop_loss
    /\ ret[1].take_profit = z.take_profit

\* C18 as stated: calcular_niveles_operacion returns the Fibonacci zone
\* whenever that zone has all three of entry, stop and target present, and
\* exactly the result of _calcular_niveles_tradicionales in every other case.
C18_Original ==
    Aplicado("calcular_niveles_operacion") =>
        IF ~ZonaFib.vacio /\ IsNum(ZonaFib.entrada) /\ IsNum(ZonaFib.stop_loss)
           /\ IsNum(ZonaFib.take_profit)
        THEN EsZona(ZonaFib)
        ELSE ret[1] = Respaldo

\* C18 amended: calcular_niveles_operacion returns the Fibonacci zone whenever
\* that zone has all three of entry, stop and target present and non-zero, and
\* exactly the result of _calcular_niveles_tradicionales in every other case
\* (empty recommendation, a component that is 0, or an exception in the
\* Fibonacci path).
C18_Fallback ==
    Aplicado("calcular_niveles_operacion") =>
        IF /\ ~ZonaFib.vacio
           /\ \A x \in {ZonaFib.entrada, ZonaFib.stop_loss, ZonaFib.take_profit} :
                 IsNum(x) /\ x # Entero(0)
        THEN EsZona(ZonaFib)
        ELSE ret[1] = Respaldo

\* C18 witness: bands 102 and -100 with price 10 give the zone (24.072, 0,
\* -228.072), whose stop is 0, and the levels returned are the fallback's
C18_Witness ==
    /\ Aplicado("calcular_niveles_operacion")
    /\ ~ZonaFib.vacio
    /\ ZonaFib.entrada = R(24072, 1000) /\ ZonaFib.stop_loss = Entero(0)
    /\ ret[1].origen = "tradicional"
    /\ ret[1].entrada = Entero(10) /\ ret[1].stop_loss = Entero(7)

\* the retracement levels passed to identificar_zonas_operacion, and the
\* distance of level i to the current price
RetZonas == args.niveles.retracements
Distancia(i) == RAbs(RSub(RetZonas[i], args.precio_actual))

\* the levels at ratios 0.382, 0.5 and 0.618 on the discount side of the price
Descontados ==
    {i \in {Ret0382, Ret0382 + 1, Ret0618} :
        IF args.tendencia = "ALCISTA"
        THEN Menor(RetZonas[i], args.precio_actual) /\ RetZonas[i] # args.precio_actual
        ELSE Menor(args.precio_actual, RetZonas[i]) /\ RetZonas[i] # args.precio_actual}

\* C19: the entry candidates are exactly the levels at ratios 0.382, 0.5 and
\* 0.618 whose price is strictly below (ALCISTA) or strictly above (BAJISTA)
\* the current price; when there is one, the entry is the candidate closest to
\* the current price, the first in ratio order among the closest.
C19_Entry ==
    Aplicado("identificar_zonas_operacion") =>
        /\ ret[1].entrada_candidatos = Descontados
        /\ Descontados # {} =>
              /\ ret[1].entrada_nivel \in Descontados
              /\ \A j \in Descontados :
                    /\ Menor(Distancia(ret[1].entrada_nivel), Distancia(j))
                    /\ Distancia(j) = Distancia(ret[1].entrada_nivel)
                          => ret[1].entrada_nivel <= j
              /\ ret[1].zonas.entrada = RetZonas[ret[1].entrada_nivel]

\* C19 witness: bullish, price 7, the 0.382 and the 0.5 level both at 5 and the
\* 0.618 level at 4: the entry is the 0.382 level
C19_Witness ==
    /\ Aplicado("identificar_zonas_operacion") /\ args.tendencia = "ALCISTA"
    /\ args.precio_actual = Entero(7)
    /\ RetZonas[Ret0382] = Entero(5) /\ RetZonas[Ret0382 + 1] = Entero(5)
    /\ RetZonas[Ret0618] = Entero(4)
    /\ ret[1].entrada_nivel = Ret0382 /\ ret[1].zonas.entrada = Entero(5)

\* C20: when no entry candidate exists, identificar_zonas_operacion returns,
\* for both ALCISTA and BAJISTA, entry = the ratio-0.786 retracement level and
\* stop-loss = the ratio-1 retracement level.
C20_NoCandidate ==
    (Aplicado("identificar_zonas_operacion") /\ Descontados = {}) =>
        /\ ret[1].zonas.entrada = RetZonas[Ret0786]
        /\ ret[1].zonas.stop_loss = RetZonas[Ret1]

\* the second call has returned
OtraRetornada == otra.pc = "retornado"

\* C15: generar_decision_trading never modifies the attributes of the
\* analyzer (riesgo_maximo, fib_levels, fib_ext) nor its arguments, so under
\* every interleaving of two calls on the same analyzer each call returns the
\* record it returns when run alone, and two calls with equal arguments
\* return equal records.
C15_Pure ==
    /\ [](/\ instancia = InstanciaInicial
          /\ Retornado => resultado = Solo(datos, capital)
          /\ OtraRetornada => otra.resultado = Solo(otra.datos, otra.capital)
          /\ (Retornado /\ OtraRetornada /\ datos = otra.datos /\ capital = otra.capital)
                => resultado = otra.resultado)
    /\ [][/\ instancia' = instancia
          /\ datos' = datos /\ capital' = capital
          /\ otra'.datos = otra.datos /\ otra'.capital = otra.capital]_vars

\* both calls ran interleaved on equal arguments down the normal path, and
\* returned
C15_Witness ==
    /\ Retornado /\ OtraRetornada
    /\ datos = otra.datos /\ capital = otra.capital
    /\ ~traza.excepcion
    /\ ~traza.niveles.vacio
    /\ resultado = otra.resultado

\* the levels whose price lies beyond the entry on the losing side: below it
\* for ALCISTA, above it for BAJISTA
MasAllaDeLaEntrada ==
    {i \in DOMAIN RetZonas :
        /\ RetZonas[i] # ret[1].zonas.entrada
        /\ IF args.tendencia = "ALCISTA" THEN Menor(RetZonas[i], ret[1].zonas.entrada)
           ELSE Menor(ret[1].zonas.entrada, RetZonas[i])}

\* C21: when an entry candidate is chosen, the stop-loss is the retracement
\* level nearest to the entry among the levels beyond it on the losing side,
\* and the ratio-1 level when there is no such level.
C21_Stop ==
    (Aplicado("identificar_zonas_operacion") /\ Descontados # {}) =>
        IF MasAllaDeLaEntrada = {} THEN ret[1].zonas.stop_loss = RetZonas[Ret1]
        ELSE \E i \in MasAllaDeLaEntrada :
                /\ ret[1].zonas.stop_loss = RetZonas[i]
                /\ \A j \in MasAllaDeLaEntrada :
                      IF args.tendencia = "ALCISTA" THEN Menor(RetZonas[j], RetZonas[i])
                      ELSE Menor(RetZonas[i], RetZonas[j])

ExtZonas == args.niveles.extensions

\* C22: the take-profit of identificar_zonas_operacion is the 1.618 extension
\* level when an entry candidate was found and the 1.272 extension level when
\* the fallback entry (ratio 0.786) is used, for both trends.
C22_TakeProfit ==
    Aplicado("identificar_zonas_operacion") =>
        IF Descontados # {}
        THEN ret[1].zonas.take_profit = ExtZonas[Ext1618]
        ELSE /\ ret[1].zonas.entrada = RetZonas[Ret0786]
             /\ ret[1].zonas.take_profit = ExtZonas[Ext1272]

\* C22 witness: a bearish zone with a candidate, whose target is the 1.618
\* extension and not the 1.272 one
C22_Witness ==
    /\ Aplicado("identificar_zonas_operacion") /\ args.tendencia = "BAJISTA"
    /\ Descontados # {}
    /\ ExtZonas[Ext1618] # ExtZonas[Ext1272]
    /\ ret[1].zonas.take_profit = ExtZonas[Ext1618]

ListasCortas ==
    Len(args.precios_maximos) < 2 \/ Len(args.precios_minimos) < 2

\* C23: with fewer than two recent highs or fewer than two recent lows
\* analizar_estructura_precio returns NEUTRAL with an empty result; an empty
\* analysis makes generar_recomendacion_fib return an empty recommendation,
\* and calcular_niveles_operacion then answers with the levels of
\* _calcular_niveles_tradicionales instead of failing.
C23_ShortLists ==
    /\ (Aplicado("analizar_estructura_precio") /\ ListasCortas) =>
          /\ ~ret[1].raises
          /\ ret[1].valor.tendencia = "NEUTRAL"
          /\ ret[1].valor.vacio
    /\ (Aplicado("calcular_niveles_operacion") /\ datos.forma = "dict"
        /\ generar_recomendacion_fib(datos.datos_mercado, datos.analisis_tecnico_ml).vacio) =>
          ret[1] = _calcular_niveles_tradicionales(datos, args.puntuacion_global)

\* C23 witness: two highs and a single low
C23_Witness ==
    /\ Aplicado("analizar_estructura_precio")
    /\ Len(args.precios_maximos) = 2 /\ Len(args.precios_minimos) = 1
    /\ ret[1].valor = SinAnalisis

\* C24: for every pair of lists with at least two recent highs and at least
\* two recent lows, exactly two included, analizar_estructura_precio
\* establishes a trend in {ALCISTA, BAJISTA, NEUTRAL} and returns without
\* raising.
C24_NoRaise ==
    (Aplicado("analizar_estructura_precio") /\ ~ListasCortas) =>
        /\ ~ret[1].raises
        /\ ret[1].valor.tendencia \in {"ALCISTA", "BAJISTA", "NEUTRAL"}

\* a Bollinger band that is positive, or absent and taken from the price
BandaPositiva(v) == v.k = "absent" \/ (IsNum(v) /\ RLt(Entero(0), v))

\* the call has a positive price and two bands that are positive or absent
PrecioYBandasPositivos ==
    /\ datos.forma = "dict" /\ datos.datos_mercado.forma = "dict"
    /\ IsNum(datos.datos_mercado.precio_actual)
    /\ RLt(Entero(0), datos.datos_mercado.precio_actual)
    /\ datos.analisis_tecnico_ml.forma = "dict"
    /\ datos.analisis_tecnico_ml.indicadores_clave.forma = "dict"
    /\ BandaPositiva(datos.analisis_tecnico_ml.indicadores_clave.BB_Superior)
    /\ BandaPositiva(datos.analisis_tecnico_ml.indicadores_clave.BB_Inferior)

\* C25: with a positive price and two Bollinger bands that are positive (or
\* absent, so taken as price * 1.05 and price * 0.95) the synthesized highs
\* fall and the synthesized lows rise, the structure is NEUTRAL, the
\* recommendation is empty and calcular_niveles_operacion returns the
\* volatility fallback, never a Fibonacci zone.
C25_Neutral ==
    (Aplicado("calcular_niveles_operacion") /\ PrecioYBandasPositivos) =>
        /\ ZonaFib.vacio /\ ZonaFib.tendencia = "NEUTRAL"
        /\ ret[1] = Respaldo
        /\ ret[1].origen = "tradicional"

\* C25 witness: price 10 with bands 110 and 95 returns the fallback levels
\* 10, 7, 13 of volatility 3
C25_Witness ==
    /\ Aplicado("calcular_niveles_operacion") /\ PrecioYBandasPositivos
    /\ datos.analisis_tecnico_ml.indicadores_clave.BB_Superior = Entero(110)
    /\ datos.analisis_tecnico_ml.indicadores_clave.BB_Inferior = Entero(95)
    /\ args.puntuacion_global = R(5, 10)
    /\ ret[1].origen = "tradicional"
    /\ ret[1].entrada = Entero(10) /\ ret[1].stop_loss = Entero(7)
    /\ ret[1].take_profit = Entero(13)

\* the levels of the call are those calcular_niveles_fib gives for a high
\* above the low
NivelesDeAltoMayor ==
    /\ args.niveles \in NivelesCalculados(args.tendencia)
    /\ RetZonas[1] # RetZonas[Len(RetZonas)]

\* C26: on levels computed with high > low, the zone of
\* identificar_zonas_operacion has stop_loss < entrada < take_profit for
\* ALCISTA and take_profit < entrada < stop_loss for BAJISTA, in the candidate
\* branch and in the fallback branch.
C26_Sides ==
    (Aplicado("identificar_zonas_operacion") /\ NivelesDeAltoMayor) =>
        IF args.tendencia = "ALCISTA"
        THEN /\ RLt(ret[1].zonas.stop_loss, ret[1].zonas.entrada)
             /\ RLt(ret[1].zonas.entrada, ret[1].zonas.take_profit)
        ELSE /\ RLt(ret[1].zonas.take_profit, ret[1].zonas.entrada)
             /\ RLt(ret[1].zonas.entrada, ret[1].zonas.stop_loss)

\* C27: in the record generar_decision_trading returns, COMPRAR comes with
\* confianza >= 70, VENDER with confianza <= 30 and MANTENER with
\* 30 <= confianza <= 70, the safe default (MANTENER, 50) included.
C27_Confianza ==
    Retornado =>
        /\ IsNum(resultado.confianza)
        /\ resultado.decision \in {"COMPRAR", "VENDER", "MANTENER"}
        /\ resultado.decision = "COMPRAR" => Menor(Entero(70), resultado.confianza)
        /\ resultado.decision = "VENDER" => Menor(resultado.confianza, Entero(30))
        /\ resultado.decision = "MANTENER" =>
              /\ Menor(Entero(30), resultado.confianza)
              /\ Menor(resultado.confianza, Entero(70))

\* C27 witness: a call that returns normally with COMPRAR and a confianza
\* above 70
C27_Witness ==
    /\ Retornado /\ ~traza.excepcion
    /\ resultado.decision = "COMPRAR"
    /\ RLt(Entero(70), resultado.confianza)

\* y is a multiple of 1/p within 1/(2p) of x, for y >= 0: x rounded to the
\* decimals that p stands for
RedondeoDe(y, x, p) ==
    /\ p % y.d = 0
    /\ \E n \in {y.n * (p \div y.d)} :
          /\ ~LtFrac(x.n, x.d, 2 * n - 1, 2 * p)
          /\ ~LtFrac(2 * n + 1, 2 * p, x.n, x.d)

\* a normal record returned for a positive capital
RegistroConCapital ==
    /\ Retornado /\ ~traza.excepcion
    /\ IsNum(capital) /\ RLt(Entero(0), capital)

\* the risk of one unit, from the levels the record reports
RiesgoPorUnidadReportado ==
    RAbs(RSub(resultado.niveles_operacion.entrada, resultado.niveles_operacion.stop_loss))

\* C28: in every normal record returned for a positive capital,
\* tamano_posicion is not negative; when it is positive, it is 2% of capital
\* divided by |entrada - stop_loss| of the reported levels, rounded to 8
\* decimals, so that the risk it implies is the reported capital_arriesgado up
\* to rounding; capital_arriesgado is 2% of capital rounded to 2 decimals,
\* also when tamano_posicion is 0.
C28_Riesgo ==
    RegistroConCapital =>
        /\ IsNum(resultado.gestion_riesgo.tamano_posicion)
        /\ RLe(Entero(0), resultado.gestion_riesgo.tamano_posicion)
        /\ RedondeoDe(resultado.gestion_riesgo.capital_arriesgado,
                      RMul(capital, R(2, 100)), 100)
        /\ RLt(Entero(0), resultado.gestion_riesgo.tamano_posicion) =>
              /\ IsNum(resultado.niveles_operacion.entrada)
              /\ IsNum(resultado.niveles_operacion.stop_loss)
              /\ RiesgoPorUnidadReportado # Entero(0)
              /\ RedondeoDe(resultado.gestion_riesgo.tamano_posicion,
                            RDiv(RMul(capital, R(2, 100)), RiesgoPorUnidadReportado),
                            Pow10(8))

\* C28 witness: capital 100 and levels 2.7 apart give 0.74074074 units, whose
\* risk 1.999999998 is the reported 2 up to rounding
C28_Witness ==
    /\ RegistroConCapital /\ capital = Entero(100)
    /\ RiesgoPorUnidadReportado = R(27, 10)
    /\ resultado.gestion_riesgo.tamano_posicion = R(74074074, Pow10(8))
    /\ resultado.gestion_riesgo.capital_arriesgado = Entero(2)

\* the snapshot d satisfies the condition <<name, value>>, read with the
\* defaults of _verificar_condiciones; a condition of another name asks nothing
Satisface(cond, d) ==
    CASE cond[1] = "precio_subio" ->
            /\ IsNum(Get(d.cambio_porcentual, Entero(0)))
            /\ RLe(cond[2], Get(d.cambio_porcentual, Entero(0)))
      [] cond[1] = "precio_bajo" ->
            /\ IsNum(Get(d.cambio_porcentual, Entero(0)))
            /\ RLe(Get(d.cambio_porcentual, Entero(0)), RNeg(cond[2]))
      [] cond[1] = "volumen_alto" ->
            /\ IsNum(Get(d.volumen_ratio, Entero(1)))
            /\ RLe(cond[2], Get(d.volumen_ratio, Entero(1)))
      [] cond[1] = "rsi_sobrecompra" ->
            /\ IsNum(Get(d.rsi, Entero(50)))
            /\ RLe(cond[2], Get(d.rsi, Entero(50)))
      [] cond[1] = "rsi_sobreventa" ->
            /\ IsNum(Get(d.rsi, Entero(50)))
            /\ RLe(Get(d.rsi, Entero(50)), cond[2])
      [] OTHER -> TRUE

\* the dispatches of alert i so far
DespachosDe(i) == {k \in DOMAIN despachos : despachos[k].alerta = i}

\* C29: over any sequence of configurar_alertas_personalizadas and
\* monitorear_alertas calls, each configured alert is dispatched at most once
\* and is marked disparada exactly when it has been; an alert that is marked
\* stays marked and is not dispatched again; and every dispatch was made by a
\* snapshot whose simbolo equals the alert's and which satisfies all of the
\* alert's conditions.
C29_AtMostOnce ==
    /\ [](\A i \in DOMAIN alertas_activas :
             /\ Cardinality(DespachosDe(i)) <= 1
             /\ alertas_activas[i].disparada <=> DespachosDe(i) # {})
    /\ [](\A k \in DOMAIN despachos :
             /\ despachos[k].alerta \in DOMAIN alertas_activas
             /\ despachos[k].datos.simbolo = alertas_activas[despachos[k].alerta].simbolo
             /\ \A c \in DOMAIN alertas_activas[despachos[k].alerta].condiciones :
                   Satisface(alertas_activas[despachos[k].alerta].condiciones[c],
                             despachos[k].datos))
    /\ [][\A i \in DOMAIN alertas_activas :
             alertas_activas[i].disparada =>
                /\ alertas_activas'[i].disparada
                /\ \A k \in DOMAIN despachos' :
                      despachos'[k].alerta = i => k \in DOMAIN despachos]_vars

\* C29 witness: two alerts with conditions are configured and one and the same
\* snapshot has dispatched both of them
C29_Witness ==
    /\ Len(alertas_activas) = 2
    /\ Len(despachos) = 2
    /\ despachos[1].datos = despachos[2].datos
    /\ alertas_activas[1].condiciones # <<>>
    /\ alertas_activas[2].condiciones # <<>>
    /\ alertas_activas[1].disparada /\ alertas_activas[2].disparada

\* capital_total * riesgo_diario_maximo, as line 208 computes it
LimiteDiario == FMul(gestor.capital_total, gestor.riesgo_diario_maximo)

\* this step is a call of calcular_tamano_posicion_avanzado
PasoDeTamano == gestor' = gestor /\ ultimo_tamano'.tipo # "ninguno"

\* C30 as stated: as long as every registrar_operacion call registered the
\* result of the sizing call just before it, riesgo_acumulado_hoy never
\* exceeds capital_total * 0.05, and once it has reached that limit every
\* sizing call returns the daily-limit error.
C30_Original ==
    /\ [](en_orden => RLe(gestor.riesgo_acumulado_hoy, LimiteDiario))
    /\ [][(en_orden /\ RLe(LimiteDiario, gestor.riesgo_acumulado_hoy) /\ PasoDeTamano)
             => ultimo_tamano'.tipo = "limite"]_vars

\* C30 amended: for capital_total >= 0, as long as every registrar_operacion
\* call registered the result of the sizing call just before it,
\* riesgo_acumulado_hoy never exceeds capital_total * 0.05 by more than the
\* rounding of the floating-point sum, one unit in the last place of the
\* limit; and once it has reached or passed the limit every sizing call
\* returns the daily-limit error.
C30_DailyLimit ==
    /\ []((en_orden /\ gestor.capital_total.n >= 0) =>
             RLe(gestor.riesgo_acumulado_hoy, RAdd(LimiteDiario, Ulp(LimiteDiario))))
    /\ [][(en_orden /\ RLe(LimiteDiario, gestor.riesgo_acumulado_hoy) /\ PasoDeTamano)
             => ultimo_tamano'.tipo = "limite"]_vars

\* C30 witness: with capital 9 the limit is 29/64; two positions registered in
\* order bring the sum to 15/32, one unit in the last place above the limit,
\* and the sizing call that follows returns the daily-limit error
C30_Witness ==
    /\ en_orden
    /\ gestor.capital_total = Entero(9)
    /\ LimiteDiario = R(29, 64)
    /\ Len(gestor.operaciones_activas) = 2
    /\ gestor.riesgo_acumulado_hoy = R(15, 32)
    /\ ultimo_tamano.tipo = "limite"

====
